---- MODULE Spec2Model ----
(***************************************************************************)
(* SelfStarter: the Structured Generalization engine.                      *)
(*                                                                         *)
(* The driver StructuredGeneralization (MetaTemplater.py) is modelled as a *)
(* state machine: one step per iteration of its device loop (Collect), one *)
(* per iteration of its templating loop (Seed, Merge) and one per          *)
(* statement after the loops (Minimize, AddExact, Report).  Python dicts   *)
(* are functions; where the code iterates over a dict, the insertion order *)
(* of its keys is kept in a sequence beside it.                            *)
(*                                                                         *)
(* Lines are the prefix-list / ACL wire lines: a tag (index -2), an        *)
(* identity (index -1) and NumAttrs attribute tokens.  A token is a        *)
(* literal, the empty string (an attribute the line lacks: Python's        *)
(* line.get(i) is falsy) or a parameter name P<k>.                         *)
(***************************************************************************)
EXTENDS Integers, Sequences, FiniteSets, TLC

VARIABLES
    flavor,            \* "PrefixList" or "ACL": the function map handed to the driver
    devicesInfo,       \* device -> its matching segment JSON, for the devices visited
    pc,                \* position of the driver
    deviceIdx,         \* number of devices of devicesInfo already visited
    foundDevices,      \* devices with a non-empty matching segment
    emptyDefDevices,   \* devices whose matching segment has no line
    exactDefMatchMap,  \* router -> [exact: routers with equal JSON, json: its JSON]
    exactOrder,        \* key order of exactDefMatchMap
    segments,          \* retained parsed segments, in discovery order
    templateIdx,       \* number of entries of the sorted segment list already templated
    metaTemplate,      \* the block list of the meta-template, NoTemplate for None
    parameters,        \* device -> (parameter name -> value)
    lineMapping,       \* device -> list of line identities
    deviceOrder,       \* key order of lineMapping
    counter,           \* next parameter index
    predicates,        \* predicate name -> list of line identities
    predOrder,         \* key order of predicates
    groupsList,        \* list of [lines, devices]
    templatingCount,   \* number of merges performed
    oldtoNewMap,       \* the identity map of the last groupAndSortPredicates
    prePredicates,     \* predicates as predicateGenerator left them
    singleParamQ,      \* reports of singleParamQuestions
    spuriousQ,         \* reports of spuriousParamQuestions
    exactGroupSizes,   \* result of addExactRouters
    result,            \* the classification returned
    probe              \* a direct call of one function: its arguments and its return value

vars == <<flavor, devicesInfo, pc, deviceIdx, foundDevices, emptyDefDevices, exactDefMatchMap,
          exactOrder, segments, templateIdx, metaTemplate, parameters, lineMapping,
          deviceOrder, counter, predicates, predOrder, groupsList, templatingCount,
          oldtoNewMap, prePredicates, singleParamQ, spuriousQ, exactGroupSizes,
          result, probe>>

-----------------------------------------------------------------------------
(* Bounds of the model *)

MaxDevices == 3
MaxLines == 2
MaxTotalLines == 4
NumAttrs == 2
ManyCopies == 24
MaxPairLines == 3
MaxMatcherLines == 2
MaxFleet == 49
LargeBlockLines == 358

(* Program constants *)

INFINITY == 10000
LINE_PENALTY == 14
ACL_LINE_PENALTY == 40
\* the two thresholds are 0.09 and 0.05 in the source; here in hundredths
SINGLE_PARAM_THRESHOLD == 9
SPURIOUS_PARAM_THRESHOLD == 5

None == "None"

\* metaTemplate = None: a meta-template has a block, so the empty list is free
NoTemplate == <<>>

-----------------------------------------------------------------------------
(* Generic helpers *)

Max(S) == CHOOSE x \in S : \A y \in S : y <= x

Min(S) == CHOOSE x \in S : \A y \in S : x <= y

Range(s) == {s[i] : i \in DOMAIN s}

RECURSIVE SumSeq(_)
SumSeq(s) == IF s = <<>> THEN 0 ELSE Head(s) + SumSeq(Tail(s))

RECURSIVE SeqOfSet(_)
\* the elements of a finite set of integers, ascending
SeqOfSet(S) == IF S = {} THEN <<>> ELSE <<Min(S)>> \o SeqOfSet(S \ {Min(S)})

\* dict update d[k] = v
Put(d, k, v) == [x \in (DOMAIN d) \cup {k} |-> IF x = k THEN v ELSE d[x]]

\* dict.pop(k)
Drop(d, k) == [x \in (DOMAIN d) \ {k} |-> d[x]]

EmptyMap == [x \in {} |-> 0]

-----------------------------------------------------------------------------
(* Tokens, parameter and predicate names *)

PNames == <<"P0", "P1", "P2", "P3", "P4", "P5", "P6", "P7", "P8", "P9",
            "P10", "P11", "P12", "P13", "P14", "P15", "P16", "P17", "P18", "P19">>

\* "P" + str(k)
ParamName(k) == PNames[k + 1]

ParamNames == Range(PNames)

RNames == <<"R0", "R1", "R2", "R3", "R4", "R5", "R6", "R7", "R8", "R9">>

\* "R" + str(k)
PredName(k) == RNames[k + 1]

\* position of a predicate name in Python's string order: "A" < "R0" < ... < "R9"
PredRank(p) == IF p = "A" THEN 0 ELSE CHOOSE k \in 1..Len(RNames) : RNames[k] = p

\* value.startswith("P"), "P" in value: literals hold digits only
IsParam(v) == v \in ParamNames

\* line.get(i) is truthy
Has(v) == v # ""

Literals == {"0", "1"}

Actions == {"permit", "deny"}

-----------------------------------------------------------------------------
(* The input: the segment JSON of one device                               *)

\* attribute tokens whose first k entries are "0" and whose other entries are "1"
Stair(k) == [i \in 1..NumAttrs |-> IF i <= k THEN "0" ELSE "1"]

\* an IPv6 entry whose first token is empty ("::" in the address)
EmptyFirst == [i \in 1..NumAttrs |-> IF i = 1 THEN "" ELSE "0"]

\* the JSON lines a segment is drawn from: {action, ipWildcard, lengthRange}
JsonLines ==
    {[action |-> "permit", family |-> "ipv4", vals |-> Stair(k)] : k \in 0..NumAttrs}
    \cup {[action |-> "permit", family |-> "ipv6", vals |-> EmptyFirst]}
    \cup {[action |-> "permit", family |-> "ipv6", vals |-> Stair(NumAttrs)]}
    \cup {[action |-> "deny", family |-> "ipv4", vals |-> Stair(NumAttrs)]}

RECURSIVE SeqsUpTo(_, _)
SeqsUpTo(S, n) ==
    IF n = 0 THEN {<<>>}
    ELSE LET shorter == SeqsUpTo(S, n - 1)
         IN  shorter \cup {Append(s, x) : s \in {t \in shorter : Len(t) = n - 1}, x \in S}

\* the segment JSONs: the list under 'lines'
JsonSegments == SeqsUpTo(JsonLines, MaxLines)

\* the JSON lines and the longer segments of the runs over two devices
PairLines ==
    {[action |-> "permit", family |-> "ipv4", vals |-> Stair(0)],
     [action |-> "permit", family |-> "ipv4", vals |-> Stair(NumAttrs)],
     [action |-> "permit", family |-> "ipv6", vals |-> EmptyFirst],
     [action |-> "deny", family |-> "ipv4", vals |-> Stair(NumAttrs)]}

PairSegments == SeqsUpTo(PairLines, MaxPairLines)

-----------------------------------------------------------------------------
(* Flavor adapter: JSON -> blocks                                          *)

NumberOfAttributes == NumAttrs

\* Block.__init__: one line per JSON entry, identities lineNum, lineNum+1, ...
Block(lineNum, action, blockJson) ==
    [action |-> action,
     lines  |-> [k \in 1..Len(blockJson) |->
                    [tag   |-> IF blockJson[k].family = "ipv6" THEN 1 ELSE 0,
                     num   |-> lineNum + k - 1,
                     attrs |-> blockJson[k].vals]]]

\* createBlocks with a block closed after every entry
createBlocksPerLine(json, idx, presentAction, block, startingLineNumber, blocks) ==
    [k \in 1..Len(json) |-> Block(k - 1, json[k].action, <<json[k]>>)]

RECURSIVE createBlocksFrom(_, _, _, _, _, _)
\* the loop of createBlocks from entry idx (0-based) on
createBlocksFrom(json, idx, presentAction, block, startingLineNumber, blocks) ==
    IF idx = Len(json)
    THEN Append(blocks, Block(startingLineNumber, presentAction, block))
    ELSE LET line == json[idx + 1] IN
         IF presentAction = None
         THEN createBlocksFrom(json, idx + 1, line.action, Append(block, line),
                               startingLineNumber, blocks)
         ELSE IF presentAction # line.action
         THEN createBlocksFrom(json, idx + 1, line.action, <<line>>, idx,
                               Append(blocks, Block(startingLineNumber, presentAction, block)))
         ELSE createBlocksFrom(json, idx + 1, presentAction, Append(block, line),
                               startingLineNumber, blocks)

createBlocks(json) == createBlocksFrom(json, 0, None, <<>>, 0, <<>>)

\* PrefixList(...) / ACL(...): the parsed segment of a device
ParseSegment(device, json) == [deviceName |-> device, blocks |-> createBlocks(json)]

\* all lines of a block list, in block order then line order
RECURSIVE AllLines(_)
AllLines(blocks) ==
    IF blocks = <<>> THEN <<>> ELSE Head(blocks).lines \o AllLines(Tail(blocks))

\* blocks[-1].lines[-1][LINENUM]
LastLineNum(blocks) ==
    LET ls == blocks[Len(blocks)].lines IN ls[Len(ls)].num

-----------------------------------------------------------------------------
(* commonFunctions: exact JSON equality                                    *)

\* instanceCheck with the comparison of the leaves inverted (v == u for v != u)
instanceCheckLeavesInverted(u, v) ==
    /\ Len(u) = Len(v)
    /\ \A i \in 1..Len(u) :
          /\ u[i].action # v[i].action
          /\ u[i].family # v[i].family
          /\ \A k \in 1..NumAttrs : u[i].vals[k] # v[i].vals[k]

\* instanceCheck on two segment JSONs: equal lists of equal dicts
instanceCheck(u, v) ==
    /\ Len(u) = Len(v)
    /\ \A i \in 1..Len(u) :
          /\ u[i].action = v[i].action
          /\ u[i].family = v[i].family
          /\ \A k \in 1..NumAttrs : u[i].vals[k] = v[i].vals[k]

\* the routers of exisitingMap, in key order, whose JSON equals newJson
JsonMatches(order, existingMap, newJson) ==
    SeqOfSet({i \in DOMAIN order : instanceCheck(existingMap[order[i]].json, newJson)})

-----------------------------------------------------------------------------
(* The driver: the device loop                                             *)

\* JSON lines read so far, over all visited devices
LinesRead ==
    LET Weight(r) == Len(exactDefMatchMap[r].json)
                        * (1 + Cardinality({x \in exactDefMatchMap[r].exact : x <= MaxDevices}))
    IN  SumSeq([i \in 1..Len(exactOrder) |-> Weight(exactOrder[i])])

CopyNames == {100 + i : i \in 1..ManyCopies}

\* the state before StructuredGeneralization visits a device, under the function map fl,
\* with p the direct call under study (NoProbe in a run of the driver)
Idle(fl, p) ==
    /\ flavor = fl
    /\ probe = p
    /\ devicesInfo = EmptyMap
    /\ pc = "collect"
    /\ deviceIdx = 0
    /\ foundDevices = {}
    /\ emptyDefDevices = {}
    /\ exactDefMatchMap = EmptyMap
    /\ exactOrder = <<>>
    /\ segments = <<>>
    /\ templateIdx = 0
    /\ metaTemplate = NoTemplate
    /\ parameters = EmptyMap
    /\ lineMapping = EmptyMap
    /\ deviceOrder = <<>>
    /\ counter = 0
    /\ predicates = EmptyMap
    /\ predOrder = <<>>
    /\ groupsList = <<>>
    /\ templatingCount = 0
    /\ oldtoNewMap = EmptyMap
    /\ prePredicates = EmptyMap
    /\ singleParamQ = {}
    /\ spuriousQ = {}
    /\ exactGroupSizes = <<>>
    /\ result = None

NoProbe == [kind |-> "none"]

Init == Idle("PrefixList", NoProbe)

\* GetBlockSequence for the next device of devicesInfo, whose matching segment is json
GetBlockSequence(device, json) ==
    LET parsedSegment == ParseSegment(device, json)
        nonEmpty == Len(parsedSegment.blocks) > 0 /\ Len(parsedSegment.blocks[1].lines) > 0
        hits == JsonMatches(exactOrder, exactDefMatchMap, json)
    IN  IF ~nonEmpty
        THEN /\ emptyDefDevices' = emptyDefDevices \cup {device}
             /\ UNCHANGED <<foundDevices, exactDefMatchMap, exactOrder, segments>>
        ELSE /\ foundDevices' = foundDevices \cup {device}
             /\ emptyDefDevices' = emptyDefDevices
             /\ IF hits # <<>>
                THEN \* checkJSONEquality: the first router with equal JSON takes it
                     LET r == exactOrder[hits[1]] IN
                     /\ exactDefMatchMap' =
                           [exactDefMatchMap EXCEPT ![r].exact = @ \cup {device}]
                     /\ UNCHANGED <<exactOrder, segments>>
                ELSE /\ exactDefMatchMap' =
                           Put(exactDefMatchMap, device, [exact |-> {}, json |-> json])
                     /\ exactOrder' = Append(exactOrder, device)
                     /\ segments' = Append(segments, parsedSegment)

Collect ==
    /\ pc = "collect"
    /\ deviceIdx < MaxDevices
    /\ \E json \in JsonSegments :
          /\ LinesRead + Len(json) <= MaxTotalLines
          /\ devicesInfo' = Put(devicesInfo, deviceIdx + 1, json)
          /\ GetBlockSequence(deviceIdx + 1, json)
    /\ deviceIdx' = deviceIdx + 1
    /\ UNCHANGED <<probe, flavor, pc, templateIdx, metaTemplate, parameters, lineMapping,
                   deviceOrder, counter, predicates, predOrder, groupsList,
                   templatingCount, oldtoNewMap, prePredicates, singleParamQ,
                   spuriousQ, exactGroupSizes, result>>

\* ManyCopies further devices of devicesInfo whose segment JSON equals that of a
\* router already seen: ManyCopies iterations of the device loop, each ending in
\* checkJSONEquality adding the device to that router's set.  The fleet is added
\* to inputs of short segments only
CollectCopies ==
    /\ pc = "collect"
    /\ deviceIdx = MaxDevices
    /\ foundDevices \cap CopyNames = {}
    /\ \A r \in Range(exactOrder) : Len(exactDefMatchMap[r].json) < MaxLines
    /\ \E r \in Range(exactOrder) :
          /\ devicesInfo' = [d \in (DOMAIN devicesInfo) \cup CopyNames |->
                                IF d \in CopyNames THEN exactDefMatchMap[r].json
                                ELSE devicesInfo[d]]
          /\ exactDefMatchMap' = [exactDefMatchMap EXCEPT ![r].exact = @ \cup CopyNames]
    /\ foundDevices' = foundDevices \cup CopyNames
    /\ UNCHANGED <<probe, flavor, pc, deviceIdx, emptyDefDevices, exactOrder, segments,
                   templateIdx, metaTemplate, parameters, lineMapping, deviceOrder,
                   counter, predicates, predOrder, groupsList, templatingCount,
                   oldtoNewMap, prePredicates, singleParamQ, spuriousQ,
                   exactGroupSizes, result>>

\* the end of the device loop
EndCollect ==
    /\ pc = "collect"
    /\ deviceIdx = MaxDevices
    /\ pc' = "template"
    /\ UNCHANGED <<probe, flavor, devicesInfo, deviceIdx, foundDevices, emptyDefDevices, exactDefMatchMap,
                   exactOrder, segments, templateIdx, metaTemplate, parameters,
                   lineMapping, deviceOrder, counter, predicates, predOrder, groupsList,
                   templatingCount, oldtoNewMap, prePredicates, singleParamQ,
                   spuriousQ, exactGroupSizes, result>>


\* the device loop over a devicesInfo of two devices with longer segments
CollectPair ==
    /\ pc = "collect"
    /\ deviceIdx < 2
    /\ \E json \in PairSegments :
          /\ devicesInfo' = Put(devicesInfo, deviceIdx + 1, json)
          /\ GetBlockSequence(deviceIdx + 1, json)
    /\ deviceIdx' = deviceIdx + 1
    /\ UNCHANGED <<probe, flavor, pc, templateIdx, metaTemplate, parameters, lineMapping,
                   deviceOrder, counter, predicates, predOrder, groupsList,
                   templatingCount, oldtoNewMap, prePredicates, singleParamQ,
                   spuriousQ, exactGroupSizes, result>>

\* the end of the device loop over two devices
EndCollectPair ==
    /\ pc = "collect"
    /\ deviceIdx = 2
    /\ DOMAIN devicesInfo = {1, 2}
    /\ pc' = "template"
    /\ UNCHANGED <<probe, flavor, devicesInfo, deviceIdx, foundDevices, emptyDefDevices,
                   exactDefMatchMap, exactOrder, segments, templateIdx, metaTemplate,
                   parameters, lineMapping, deviceOrder, counter, predicates, predOrder,
                   groupsList, templatingCount, oldtoNewMap, prePredicates, singleParamQ,
                   spuriousQ, exactGroupSizes, result>>

-----------------------------------------------------------------------------
(* ParametersLinesMap: the views the matcher and the merger read           *)

\* parameterDistribution: parameter -> Counter of its values over the devices
parameterDistribution(params) ==
    LET names == UNION {DOMAIN params[d] : d \in DOMAIN params}
        Holders(p) == {d \in DOMAIN params : p \in DOMAIN params[d]}
    IN  [p \in names |->
            [v \in {params[d][p] : d \in Holders(p)} |->
                Cardinality({d \in Holders(p) : params[d][p] = v})]]

\* addParameter without the test on newDevice: every device gets param = value
addParameterEveryDevice(params, param, value, newDevice) ==
    [d \in DOMAIN params |-> Put(params[d], param, value)]

\* addParameter replacing the dictionary of every other device: it holds param
\* = value and nothing else
addParameterAlone(params, param, value, newDevice) ==
    [d \in DOMAIN params |-> IF d # newDevice THEN Put(EmptyMap, param, value)
                                               ELSE params[d]]

\* addParameter: every device but newDevice gets param = value
addParameter(params, param, value, newDevice) ==
    [d \in DOMAIN params |-> IF d # newDevice THEN Put(params[d], param, value)
                                               ELSE params[d]]

\* remapLineNumbers leaving every list as it is
remapLineNumbersKeep(mapping, oldtoNewLineMap) == mapping

\* remapLineNumbers: identities in the map are replaced, the others kept
remapLineNumbers(mapping, oldtoNewLineMap) ==
    [d \in DOMAIN mapping |->
        [k \in 1..Len(mapping[d]) |->
            IF mapping[d][k] \in DOMAIN oldtoNewLineMap
            THEN oldtoNewLineMap[mapping[d][k]] ELSE mapping[d][k]]]

-----------------------------------------------------------------------------
(* Flavor adapter: gap penalty and line score                              *)

\* the penalty of PrefixList.py whatever the number of attributes
linePenaltyOfPrefixList(fl) == LINE_PENALTY

\* BipartiteMatching: LINE_PENALTY of PrefixList.py or of ACL.py, by the number of attributes
linePenalty(fl) == IF fl = "PrefixList" THEN LINE_PENALTY ELSE ACL_LINE_PENALTY

\* GapPenalty of PrefixList.py and of ACL.py
GapPenalty(fl, block) == Len(block.lines) * linePenalty(fl)

\* one iteration of the attribute loop of LineScore (i is 1-based here)
AttrScore(templateLine, deviceLine, i, paramValueMap) ==
    LET t == templateLine.attrs[i]
        d == deviceLine.attrs[i]
    IN  IF Has(t) /\ Has(d)
        THEN IF t # d
             THEN IF t \notin DOMAIN paramValueMap \/ d \notin DOMAIN paramValueMap[t]
                  THEN 2 ELSE 1
             ELSE 0
        ELSE 2

\* PrefixList.LineScore: the family tag is not looked at
PrefixLineScore(templateLine, deviceLine, paramValueMap) ==
    SumSeq([i \in 1..NumAttrs |-> AttrScore(templateLine, deviceLine, i, paramValueMap)])

\* ACL.LineScore without the comparison of the protocols
ACLLineScoreNoProtocol(templateLine, deviceLine, paramValueMap) ==
    SumSeq([i \in 1..NumAttrs |-> AttrScore(templateLine, deviceLine, i, paramValueMap)])

\* ACL.LineScore: INFINITY when the protocols differ
ACLLineScore(templateLine, deviceLine, paramValueMap) ==
    IF templateLine.tag # deviceLine.tag
    THEN INFINITY
    ELSE SumSeq([i \in 1..NumAttrs |-> AttrScore(templateLine, deviceLine, i, paramValueMap)])

LineScore(fl, templateLine, deviceLine, paramValueMap) ==
    IF fl = "PrefixList"
    THEN PrefixLineScore(templateLine, deviceLine, paramValueMap)
    ELSE ACLLineScore(templateLine, deviceLine, paramValueMap)

-----------------------------------------------------------------------------
(* Bipartite line matcher                                                  *)

\* the items of a line without its LINENUM item: what the hash is taken of
Content(line) == [tag |-> line.tag, attrs |-> line.attrs]

RECURSIVE HashWithLineNum(_, _, _, _, _)
\* HashShortcut with the hash taken of all items of a line, LINENUM included
HashWithLineNum(LS1, LS2, j, ls1Matched, matched) ==
    IF j > Len(LS2) THEN matched
    ELSE LET matches == {i \in (DOMAIN LS1) \ ls1Matched : LS1[i] = LS2[j]}
         IN  IF matches # {}
             THEN HashWithLineNum(LS1, LS2, j + 1, ls1Matched \cup {Max(matches)},
                                  Append(matched, <<Max(matches), j>>))
             ELSE HashWithLineNum(LS1, LS2, j + 1, ls1Matched, matched)

RECURSIVE HashShortcut(_, _, _, _, _)
\* the loop over LS2 from position j on: each line takes the last unclaimed
\* LS1 line of equal content; pairs are <<index in LS1, index in LS2>>, 1-based
HashShortcut(LS1, LS2, j, ls1Matched, matched) ==
    IF j > Len(LS2) THEN matched
    ELSE LET matches == {i \in (DOMAIN LS1) \ ls1Matched : Content(LS1[i]) = Content(LS2[j])}
         IN  IF matches # {}
             THEN HashShortcut(LS1, LS2, j + 1, ls1Matched \cup {Max(matches)},
                               Append(matched, <<Max(matches), j>>))
             ELSE HashShortcut(LS1, LS2, j + 1, ls1Matched, matched)

\* the assignments Munkres may return for a rows x cols matrix: min(rows, cols)
\* pairs, no row and no column twice; an assignment is a function row -> column
Assignments(rows, cols) ==
    LET k == IF rows <= cols THEN rows ELSE cols
    IN  UNION {{f \in [R -> 1..cols] : \A x, y \in R : x # y => f[x] # f[y]} :
                  R \in {S \in SUBSET (1..rows) : Cardinality(S) = k}}

AssignmentCost(matrix, f) ==
    LET xs == SeqOfSet(DOMAIN f)
    IN  SumSeq([n \in 1..Len(xs) |-> matrix[xs[n]][f[xs[n]]]])

\* Munkres.compute: the minimum-weight assignments; which of several is returned
\* is the library's choice
Munkres(matrix, rows, cols) ==
    LET Cheapest(all, best) == {f \in all : AssignmentCost(matrix, f) = best}
        Among(all) == Cheapest(all, Min({AssignmentCost(matrix, f) : f \in all}))
    IN  Among(Assignments(rows, cols))

\* BipartiteMatching: the score, and the matched lists it can return (one per
\* assignment Munkres may choose)
BipartiteMatching(fl, LS1, LS2, paramValueMap) ==
    LET gap == linePenalty(fl) * (IF Len(LS1) >= Len(LS2) THEN Len(LS1) - Len(LS2)
                                                        ELSE Len(LS2) - Len(LS1))
        \* the pairs of an assignment in row order
        Pairs(xs, f) == [n \in 1..Len(xs) |-> <<xs[n], f[xs[n]]>>]
        \* the pairs whose similarity is not INFINITY, as indices into LS1 and LS2
        KeptOf(ps, keep, ls1Map, ls2Map) ==
            [n \in 1..Len(keep) |-> <<ls1Map[ps[keep[n]][1]], ls2Map[ps[keep[n]][2]]>>]
        KeptPairs(ps, ls1Map, ls2Map, similarityMatrix) ==
            KeptOf(ps,
                   SeqOfSet({n \in DOMAIN ps : similarityMatrix[ps[n][1]][ps[n][2]] # INFINITY}),
                   ls1Map, ls2Map)
        Charged(ps, similarityMatrix) ==
            SumSeq([n \in 1..Len(ps) |->
                       IF similarityMatrix[ps[n][1]][ps[n][2]] # INFINITY
                       THEN similarityMatrix[ps[n][1]][ps[n][2]]
                       ELSE linePenalty(fl)])
        Outcome(hashed, ls1Map, ls2Map, similarityMatrix, indicies, first) ==
            [score   |-> Charged(Pairs(SeqOfSet(DOMAIN first), first), similarityMatrix) + gap,
             matched |-> {hashed \o KeptPairs(Pairs(SeqOfSet(DOMAIN f), f), ls1Map, ls2Map,
                                              similarityMatrix) : f \in indicies}]
        Assign(hashed, ls1Map, ls2Map, similarityMatrix, indicies) ==
            Outcome(hashed, ls1Map, ls2Map, similarityMatrix, indicies,
                    CHOOSE f \in indicies : TRUE)
        Solve(hashed, ls1Map, ls2Map, similarityMatrix) ==
            IF Len(ls1Map) = 0
            THEN [score |-> gap, matched |-> {hashed}]
            ELSE Assign(hashed, ls1Map, ls2Map, similarityMatrix,
                        Munkres(similarityMatrix, Len(ls1Map), Len(ls2Map)))
        Score(hashed, ls1Map, ls2Map) ==
            Solve(hashed, ls1Map, ls2Map,
                  [x \in 1..Len(ls1Map) |-> [y \in 1..Len(ls2Map) |->
                      LineScore(fl, LS1[ls1Map[x]], LS2[ls2Map[y]], paramValueMap)]])
        Unhashed(hashed) ==
            Score(hashed,
                  SeqOfSet({i \in DOMAIN LS1 : \A n \in 1..Len(hashed) : hashed[n][1] # i}),
                  SeqOfSet({j \in DOMAIN LS2 : \A n \in 1..Len(hashed) : hashed[n][2] # j}))
    IN  Unhashed(HashShortcut(LS1, LS2, 1, {}, <<>>))

-----------------------------------------------------------------------------
(* Block aligner                                                           *)

NoBlock == [action |-> "none", lines |-> <<>>]

\* MisMatchScore: the score of a block pair
MisMatchScore(fl, block1, block2, paramValueMap) ==
    IF block1.action # block2.action
    THEN INFINITY
    ELSE BipartiteMatching(fl, block1.lines, block2.lines, paramValueMap).score

\* MisMatchScore: the matched lists it can return for a block pair
MisMatchMatched(fl, block1, block2, paramValueMap) ==
    IF block1.action # block2.action
    THEN {<<>>}
    ELSE BipartiteMatching(fl, block1.lines, block2.lines, paramValueMap).matched

\* matrixCell(): score 0, pointer [-1]
matrixCell == [score |-> 0, pointer |-> -1]

\* the border scores with every block counted as one line
BorderScoreOneLine(fl, blocks, i) == i * linePenalty(fl)

RECURSIVE BorderScore(_, _, _)
\* dp[i][0].score, dp[0][i].score: the gap penalties of the first i blocks
BorderScore(fl, blocks, i) ==
    IF i = 0 THEN 0 ELSE BorderScore(fl, blocks, i - 1) + GapPenalty(fl, blocks[i])

\* the cell dp[i][j] with a tie of the two gap costs going to bs2's block
FillCellTieToLeft(fl, dp, b1, b2, i, j, paramValueMap) ==
    LET Cell(diag, up, left) ==
            IF diag <= up
            THEN IF diag <= left THEN [score |-> diag, pointer |-> 1]
                                 ELSE [score |-> left, pointer |-> 2]
            ELSE IF up < left THEN [score |-> up, pointer |-> 3]
                              ELSE [score |-> left, pointer |-> 2]
    IN  Cell(dp[<<i - 1, j - 1>>].score + MisMatchScore(fl, b1[i], b2[j], paramValueMap),
             dp[<<i - 1, j>>].score + GapPenalty(fl, b1[i]),
             dp[<<i, j - 1>>].score + GapPenalty(fl, b2[j]))

\* the cell dp[i][j] of the fill loop, from the three cells before it
FillCell(fl, dp, b1, b2, i, j, paramValueMap) ==
    LET Cell(diag, up, left) ==
            IF diag <= up
            THEN IF diag <= left THEN [score |-> diag, pointer |-> 1]
                                 ELSE [score |-> left, pointer |-> 2]
            ELSE IF up <= left THEN [score |-> up, pointer |-> 3]
                               ELSE [score |-> left, pointer |-> 2]
        Choose(pairScore, block1Gap, block2Gap) ==
            Cell(dp[<<i - 1, j - 1>>].score + pairScore,
                 dp[<<i - 1, j>>].score + block1Gap,
                 dp[<<i, j - 1>>].score + block2Gap)
    IN  Choose(MisMatchScore(fl, b1[i], b2[j], paramValueMap),
               GapPenalty(fl, b1[i]), GapPenalty(fl, b2[j]))

RECURSIVE FillDP(_, _, _, _, _, _)
\* the nested fill loop, cell number k (row-major over 1..m x 1..n) onwards
FillDP(fl, dp, b1, b2, k, paramValueMap) ==
    LET m == Len(b1)
        n == Len(b2)
    IN  IF k >= m * n THEN dp
        ELSE LET i == (k \div n) + 1
                 j == (k % n) + 1
                 cell == FillCell(fl, dp, b1, b2, i, j, paramValueMap)
             IN  FillDP(fl, [dp EXCEPT ![<<i, j>>] = cell], b1, b2, k + 1, paramValueMap)

\* the matrix dp of AlignSequences after the three fill loops
DPMatrix(fl, b1, b2, paramValueMap) ==
    LET m == Len(b1)
        n == Len(b2)
        border == [c \in (0..m) \X (0..n) |->
                     IF c[1] > 0 /\ c[2] = 0
                     THEN [score |-> BorderScore(fl, b1, c[1]), pointer |-> 0]
                     ELSE IF c[1] = 0 /\ c[2] > 0
                     THEN [score |-> BorderScore(fl, b2, c[2]), pointer |-> 0]
                     ELSE matrixCell]
    IN  FillDP(fl, border, b1, b2, 0, paramValueMap)

RECURSIVE Traceback(_, _, _, _, _)
\* the first while loop: the alignment holds block indices, 0 for []
Traceback(dp, i, j, pos, acc) ==
    IF i = 0 \/ j = 0
    THEN [acc EXCEPT !.i = i, !.j = j, !.pos = pos]
    ELSE IF dp[<<i, j>>].pointer = 1
    THEN Traceback(dp, i - 1, j - 1, pos - 1,
                   [acc EXCEPT !.a1 = Append(@, i), !.a2 = Append(@, j),
                               !.diag = Append(@, <<i, j>>)])
    ELSE IF dp[<<i, j>>].pointer = 2
    THEN Traceback(dp, i, j - 1, pos - 1,
                   [acc EXCEPT !.a1 = Append(@, 0), !.a2 = Append(@, j)])
    ELSE IF dp[<<i, j>>].pointer = 3
    THEN Traceback(dp, i - 1, j, pos - 1,
                   [acc EXCEPT !.a1 = Append(@, i), !.a2 = Append(@, 0)])
    ELSE [acc EXCEPT !.i = i, !.j = j, !.pos = pos, !.error = "Undefined pointer type"]

\* the padding loops without the [] filler: only the remaining blocks
PadAlignmentBlocksOnly(a, i, pos) == a \o [k \in 1..i |-> i + 1 - k]

RECURSIVE PadAlignment(_, _, _)
\* the second and third while loops: the remaining blocks, then [] down to position 0
PadAlignment(a, i, pos) ==
    IF pos < 0 THEN a
    ELSE IF i > 0 THEN PadAlignment(Append(a, i), i - 1, pos - 1)
    ELSE PadAlignment(Append(a, 0), i, pos - 1)

Reverse(s) == [k \in 1..Len(s) |-> s[Len(s) + 1 - k]]

\* AlignSequences without the line matchings: the two alignments (block indices,
\* 0 for []) and the diagonal steps, all in forward order
AlignBlocks(fl, b1, b2, paramValueMap) ==
    LET l == Len(b1) + Len(b2)
        Aligned(dp, t) ==
            [block1Alignment |-> Reverse(PadAlignment(t.a1, t.i, t.pos)),
             block2Alignment |-> Reverse(PadAlignment(t.a2, t.j, t.pos)),
             diag  |-> Reverse(t.diag),
             score |-> dp[<<Len(b1), Len(b2)>>].score,
             error |-> t.error]
        Walk(dp) ==
            Aligned(dp, Traceback(dp, Len(b1), Len(b2), l,
                                  [a1 |-> <<>>, a2 |-> <<>>, diag |-> <<>>, i |-> 0,
                                   j |-> 0, pos |-> 0, error |-> None]))
    IN  Walk(DPMatrix(fl, b1, b2, paramValueMap))

RECURSIVE MatchingChoices(_, _, _, _, _)
\* the lists lineMatchings AlignSequences can return: for every diagonal step
\* one of the matched lists BipartiteMatching can return for that block pair
MatchingChoices(fl, b1, b2, diag, paramValueMap) ==
    IF diag = <<>> THEN {<<>>}
    ELSE LET first == MisMatchMatched(fl, b1[Head(diag)[1]], b2[Head(diag)[2]],
                                      paramValueMap)
             rest  == MatchingChoices(fl, b1, b2, Tail(diag), paramValueMap)
         IN  {<<m>> \o r : m \in first, r \in rest}


-----------------------------------------------------------------------------
(* Template merger                                                         *)

\* The merger threads this state through its loops:
\*   lines: combinedLines; lineNum; o2n: oldtoNewLineMap; newDeviceLines;
\*   counter, parameters: the fields of parametersLines it writes

RECURSIVE MergeAttributes(_, _, _, _, _, _)
\* the attribute loop of MergeLines for one matched pair, from attribute a on;
\* st holds the merged line, counter and parameters
MergeAttributes(tLine, dLine, a, paramValueMap, device, st) ==
    IF a > NumberOfAttributes THEN st
    ELSE LET t == tLine.attrs[a]
             d == dLine.attrs[a]
             param == ParamName(st.counter)
             Allocate(old) ==
                [st EXCEPT !.counter = @ + 1,
                           !.parameters = addParameter(
                               [@ EXCEPT ![device] = Put(@, param, d)], param, old, device),
                           !.line.attrs[a] = param]
             next ==
                IF Has(t) /\ Has(d)
                THEN IF t # d
                     THEN IF t \notin DOMAIN paramValueMap
                          THEN Allocate(t)
                          ELSE [st EXCEPT !.parameters[device] = Put(@, t, d)]
                     ELSE st
                ELSE IF Has(d) THEN Allocate("") ELSE st
         IN  MergeAttributes(tLine, dLine, a + 1, paramValueMap, device, next)

RECURSIVE MergeMatched(_, _, _, _, _, _, _)
\* the loop of MergeLines over the matching, from pair n on
MergeMatched(templateLines, deviceLines, matching, n, paramValueMap, device, st) ==
    IF n > Len(matching) THEN st
    ELSE LET tLine == templateLines[matching[n][1]]
             dLine == deviceLines[matching[n][2]]
             Combined(m) ==
                [st EXCEPT
                    !.counter = m.counter,
                    !.parameters = m.parameters,
                    !.o2n = Put(@, tLine.num, st.lineNum),
                    !.newDeviceLines = Append(@, st.lineNum),
                    !.lines = Append(@, [m.line EXCEPT !.num = st.lineNum]),
                    !.lineNum = @ + 1]
         IN  MergeMatched(templateLines, deviceLines, matching, n + 1, paramValueMap,
                          device,
                          Combined(MergeAttributes(tLine, dLine, 1, paramValueMap, device,
                                                   [line |-> tLine, counter |-> st.counter,
                                                    parameters |-> st.parameters])))

RECURSIVE CopyLinesKeepIdentity(_, _, _, _, _, _)
\* CopyLines without line[LINENUM] = lineNum: a copied line keeps the identity
\* it had
CopyLinesKeepIdentity(lines, idxs, n, fromTemplate, toDevice, st) ==
    IF n > Len(idxs) THEN st
    ELSE LET line == lines[idxs[n]]
             next == [st EXCEPT
                        !.o2n = IF fromTemplate THEN Put(@, line.num, st.lineNum) ELSE @,
                        !.newDeviceLines = IF toDevice THEN Append(@, st.lineNum) ELSE @,
                        !.lines = Append(@, line),
                        !.lineNum = @ + 1]
         IN  CopyLinesKeepIdentity(lines, idxs, n + 1, fromTemplate, toDevice, next)

RECURSIVE CopyLines(_, _, _, _, _, _)
\* copy the lines at the positions idxs with fresh identities; fromTemplate: the
\* old identity is recorded in oldtoNewLineMap; toDevice: the new one is added to
\* newDeviceLines
CopyLines(lines, idxs, n, fromTemplate, toDevice, st) ==
    IF n > Len(idxs) THEN st
    ELSE LET line == lines[idxs[n]]
             next == [st EXCEPT
                        !.o2n = IF fromTemplate THEN Put(@, line.num, st.lineNum) ELSE @,
                        !.newDeviceLines = IF toDevice THEN Append(@, st.lineNum) ELSE @,
                        !.lines = Append(@, [line EXCEPT !.num = st.lineNum]),
                        !.lineNum = @ + 1]
         IN  CopyLines(lines, idxs, n + 1, fromTemplate, toDevice, next)

\* MergeLines copying the device-only lines before the template-only lines
MergeLinesDeviceFirst(templateLines, deviceLines, matching, device, st) ==
    LET paramValueMap == parameterDistribution(st.parameters)
        templateLeftout == SeqOfSet({i \in DOMAIN templateLines : \A n \in 1..Len(matching) : matching[n][1] # i})
        deviceLeftout == SeqOfSet({i \in DOMAIN deviceLines : \A n \in 1..Len(matching) : matching[n][2] # i})
        s1 == CopyLines(deviceLines, deviceLeftout, 1, FALSE, TRUE,
                        [st EXCEPT !.lines = <<>>])
        s2 == CopyLines(templateLines, templateLeftout, 1, TRUE, FALSE, s1)
    IN  MergeMatched(templateLines, deviceLines, matching, 1, paramValueMap, device, s2)

\* MergeLines: template-only lines, device-only lines, then the matched pairs
MergeLines(templateLines, deviceLines, matching, device, st) ==
    LET paramValueMap == parameterDistribution(st.parameters)
        templateLeftout == SeqOfSet({i \in DOMAIN templateLines : \A n \in 1..Len(matching) : matching[n][1] # i})
        deviceLeftout == SeqOfSet({i \in DOMAIN deviceLines : \A n \in 1..Len(matching) : matching[n][2] # i})
        s1 == CopyLines(templateLines, templateLeftout, 1, TRUE, FALSE,
                        [st EXCEPT !.lines = <<>>])
        s2 == CopyLines(deviceLines, deviceLeftout, 1, FALSE, TRUE, s1)
    IN  MergeMatched(templateLines, deviceLines, matching, 1, paramValueMap, device, s2)

AllIdx(s) == [k \in 1..Len(s) |-> k]

RECURSIVE GenerateFrom(_, _, _, _, _, _, _, _)
\* the loop of TemplateGenerator over the alignment, from position i on; j counts
\* the line matchings used
GenerateFrom(b1, b2, block1Alignment, block2Alignment, lineMatchings, i, device, st) ==
    IF i > Len(block1Alignment) THEN st
    ELSE LET v == IF block1Alignment[i] = 0 THEN NoBlock ELSE b1[block1Alignment[i]]
             w == IF block2Alignment[i] = 0 THEN NoBlock ELSE b2[block2Alignment[i]]
             \* mergedBlocks.append(Block(...)) with the lines just combined
             Close(c, action, used) ==
                [c EXCEPT !.j = @ + used,
                          !.mergedBlocks = Append(@, [action |-> action, lines |-> c.lines])]
             next ==
                IF v = NoBlock
                THEN IF w # NoBlock
                     THEN Close(CopyLines(w.lines, AllIdx(w.lines), 1, FALSE, TRUE,
                                          [st EXCEPT !.lines = <<>>]), w.action, 0)
                     ELSE st
                ELSE IF w = NoBlock
                     THEN Close(CopyLines(v.lines, AllIdx(v.lines), 1, TRUE, FALSE,
                                          [st EXCEPT !.lines = <<>>]), v.action, 0)
                     ELSE Close(MergeLines(v.lines, w.lines, lineMatchings[st.j + 1],
                                           device, st), v.action, 1)
         IN  GenerateFrom(b1, b2, block1Alignment, block2Alignment, lineMatchings, i + 1,
                          device, next)

\* TemplateGenerator: the merged blocks and the updated ParametersLinesMap fields
TemplateGenerator(b1, b2, block1Alignment, block2Alignment, lineMatchings, cnt, params, mapping, device) ==
    IF Len(block1Alignment) # Len(block2Alignment)
    THEN [error |-> "Something is wrong in alignment!!!", mergedBlocks |-> <<>>,
          counter |-> cnt, parameters |-> params, lineMapping |-> mapping]
    ELSE LET Generated(st) ==
                [error |-> None,
                 mergedBlocks |-> st.mergedBlocks,
                 counter |-> st.counter,
                 parameters |-> st.parameters,
                 lineMapping |-> Put(remapLineNumbers(mapping, st.o2n), device,
                                     st.newDeviceLines)]
         IN  Generated(GenerateFrom(b1, b2, block1Alignment, block2Alignment,
                                    lineMatchings, 1, device,
                                    [mergedBlocks |-> <<>>, lines |-> <<>>, lineNum |-> 0,
                                     j |-> 0, o2n |-> EmptyMap, newDeviceLines |-> <<>>,
                                     counter |-> cnt, parameters |-> params]))

-----------------------------------------------------------------------------
(* The driver: the templating loop                                         *)

\* the segments with lineCount c, in discovery order: lineCountMap[c]
Bucket(c) == SeqOfSet({i \in DOMAIN segments : LastLineNum(segments[i].blocks) = c})

\* numberofSegmentsLineCountTuples after sort(reverse=True), as the list of
\* line counts: more segments first, for equal numbers the larger count first
RECURSIVE SortedCounts(_)
SortedCounts(cs) ==
    IF cs = {} THEN <<>>
    ELSE LET top == CHOOSE c \in cs : \A e \in cs :
                        \/ Len(Bucket(c)) > Len(Bucket(e))
                        \/ Len(Bucket(c)) = Len(Bucket(e)) /\ c >= e
         IN  <<top>> \o SortedCounts(cs \ {top})

RECURSIVE Flatten(_)
Flatten(ss) == IF ss = <<>> THEN <<>> ELSE Head(ss) \o Flatten(Tail(ss))

\* the indices into segments in the order the templating loop visits them
TemplatingOrder ==
    LET Visit(cs) == Flatten([k \in 1..Len(cs) |-> Bucket(cs[k])])
    IN  Visit(SortedCounts({LastLineNum(segments[i].blocks) : i \in DOMAIN segments}))

\* the first iteration: the meta-template is a copy of the segment
Seed ==
    /\ pc = "template"
    /\ templateIdx < Len(segments)
    /\ templateIdx = 0
    /\ LET Start(segment, lineCount) ==
               /\ metaTemplate' = segment.blocks
               /\ lineMapping' = Put(EmptyMap, segment.deviceName,
                                     [y \in 1..(lineCount + 1) |-> y - 1])
               /\ deviceOrder' = <<segment.deviceName>>
               /\ parameters' = Put(EmptyMap, segment.deviceName, EmptyMap)
               /\ counter' = 0
           First(segment) == Start(segment, LastLineNum(segment.blocks))
       IN  First(segments[TemplatingOrder[1]])
    /\ templateIdx' = 1
    /\ UNCHANGED <<probe, flavor, devicesInfo, pc, deviceIdx, foundDevices, emptyDefDevices,
                   exactDefMatchMap, exactOrder, segments, predicates, predOrder,
                   groupsList, templatingCount, oldtoNewMap, prePredicates,
                   singleParamQ, spuriousQ, exactGroupSizes, result>>

\* a later iteration: AlignSequences, then GenerateTemplate
Merge ==
    /\ pc = "template"
    /\ templateIdx < Len(segments)
    /\ templateIdx > 0
    /\ LET \* an exception leaves the driver
           Raise(params) ==
               /\ pc' = "done"
               /\ result' = "Error"
               /\ parameters' = params
               /\ UNCHANGED <<metaTemplate, lineMapping, deviceOrder, counter,
                              templatingCount, templateIdx>>
           Store(device, params, g) ==
               IF g.error # None
               THEN Raise(params)
               ELSE /\ metaTemplate' = g.mergedBlocks
                    /\ parameters' = g.parameters
                    /\ counter' = g.counter
                    /\ lineMapping' = g.lineMapping
                    /\ deviceOrder' = Append(deviceOrder, device)
                    /\ templatingCount' = templatingCount + 1
                    /\ templateIdx' = templateIdx + 1
                    /\ UNCHANGED <<pc, result>>
           Generate(segment, params, paramValueMap, al) ==
               IF al.error # None
               THEN Raise(params)
               ELSE \E lineMatchings \in MatchingChoices(flavor, metaTemplate,
                                             segment.blocks, al.diag, paramValueMap) :
                      Store(segment.deviceName, params,
                            TemplateGenerator(metaTemplate, segment.blocks,
                                              al.block1Alignment, al.block2Alignment,
                                              lineMatchings, counter, params, lineMapping,
                                              segment.deviceName))
           Align(segment, params, paramValueMap) ==
               Generate(segment, params, paramValueMap,
                        AlignBlocks(flavor, metaTemplate, segment.blocks, paramValueMap))
           Register(segment, params) ==
               Align(segment, params, parameterDistribution(params))
           Take(segment) ==
               Register(segment, Put(parameters, segment.deviceName, EmptyMap))
       IN  Take(segments[TemplatingOrder[templateIdx + 1]])
    /\ UNCHANGED <<probe, flavor, devicesInfo, deviceIdx, foundDevices, emptyDefDevices, exactDefMatchMap,
                   exactOrder, segments, predicates, predOrder, groupsList,
                   oldtoNewMap, prePredicates, singleParamQ, spuriousQ,
                   exactGroupSizes>>


-----------------------------------------------------------------------------
(* Parameter minimizer                                                     *)

\* index k of the parameter name P<k>
ParamIndex(p) == (CHOOSE k \in 1..Len(PNames) : PNames[k] = p) - 1

\* the parameter names on a line
LineParams(line) == {line.attrs[a] : a \in {b \in 1..NumberOfAttributes : IsParam(line.attrs[b])}}

\* lineParamMap of MinimizeParameters: identity -> parameter names, for the lines
\* that hold a parameter
lineParamMap(blocks) ==
    LET Map(ls, withParam) ==
            [n \in {ls[k].num : k \in withParam} |->
                UNION {LineParams(ls[k]) : k \in {x \in withParam : ls[x].num = n}}]
        Of(ls) == Map(ls, {k \in 1..Len(ls) : LineParams(ls[k]) # {}})
    IN  Of(AllLines(blocks))

\* the first loop of MinimizeParameters: a device keeps the parameters of its lines
PruneParameters(blocks, params, mapping) ==
    LET myParam(lpm, d) == UNION {lpm[n] : n \in Range(mapping[d]) \cap DOMAIN lpm}
        Pruned(lpm) ==
            [d \in DOMAIN params |->
                IF d \in DOMAIN mapping
                THEN [p \in (DOMAIN params[d]) \cap myParam(lpm, d) |-> params[d][p]]
                ELSE params[d]]
    IN  Pruned(lineParamMap(blocks))

\* paramCompatableSets without the pop: Pj stays in compatableSets[Pi] whatever
\* the devices hold; its count is the number of devices holding both, equal
paramCompatableSetsNoPop(params, maxParam) ==
    LET names == {ParamName(i) : i \in 0..(maxParam - 1)}
        Equal(p, q) == {d \in DOMAIN params : /\ p \in DOMAIN params[d]
                                              /\ q \in DOMAIN params[d]
                                              /\ params[d][p] = params[d][q]}
    IN  [p \in names |-> [q \in names \ {p} |-> Cardinality(Equal(p, q))]]

\* paramCompatableSets: Pj stays in compatableSets[Pi] unless a device holds both
\* with different values; its count is the number of devices holding both, equal
paramCompatableSets(params, maxParam) ==
    LET names == {ParamName(i) : i \in 0..(maxParam - 1)}
        Both(p, q) == {d \in DOMAIN params : p \in DOMAIN params[d] /\ q \in DOMAIN params[d]}
    IN  [p \in names |->
            [q \in {x \in names \ {p} : \A d \in Both(p, x) : params[d][p] = params[d][x]} |->
                Cardinality(Both(p, q))]]

RECURSIVE SortByCount(_, _)
\* sorted(compatableSets[param], key=..., reverse=True): larger counts first, equal
\* counts in key order (P0, P1, ...)
SortByCount(row, keys) ==
    IF keys = {} THEN <<>>
    ELSE LET top == CHOOSE q \in keys : \A e \in keys :
                        \/ row[q] > row[e]
                        \/ row[q] = row[e] /\ ParamIndex(q) <= ParamIndex(e)
         IN  <<top>> \o SortByCount(row, keys \ {top})

RECURSIVE GrowGroup(_, _, _, _, _)
\* the inner loop of commonValueParams over the sorted candidates, from n on
GrowGroup(compatableSets, param, cands, n, acc) ==
    IF n > Len(cands) THEN acc
    ELSE LET compatableParam == cands[n]
             count == compatableSets[param][compatableParam]
             toAdd == \A k \in 1..Len(acc.sameValueParams) :
                         acc.sameValueParams[k] \in DOMAIN compatableSets[compatableParam]
             next == IF count > 0 /\ toAdd /\ compatableParam \notin acc.done
                     THEN [sameValueParams |-> Append(acc.sameValueParams, compatableParam),
                           done |-> acc.done \cup {compatableParam}]
                     ELSE acc
         IN  GrowGroup(compatableSets, param, cands, n + 1, next)

RECURSIVE CommonFrom(_, _, _, _, _)
\* the outer loop of commonValueParams over P0, P1, ..., from index i on
CommonFrom(compatableSets, maxParam, i, done, common) ==
    IF i >= maxParam THEN common
    ELSE LET param == ParamName(i) IN
         IF param \in done
         THEN CommonFrom(compatableSets, maxParam, i + 1, done, common)
         ELSE LET Grown(g) ==
                     CommonFrom(compatableSets, maxParam, i + 1, g.done,
                                IF Len(g.sameValueParams) > 1
                                THEN Append(common, g.sameValueParams) ELSE common)
              IN  Grown(GrowGroup(compatableSets, param,
                                  SortByCount(compatableSets[param],
                                              DOMAIN compatableSets[param]),
                                  1,
                                  [sameValueParams |-> <<param>>,
                                   done |-> done \cup {param}]))

commonValueParams(params, maxParam) ==
    CommonFrom(paramCompatableSets(params, maxParam), maxParam, 0, {}, <<>>)

\* ModifyErase on the meta-template: the names of eraseList become replaceWith
EraseInTemplate(blocks, replaceWith, eraseList) ==
    [b \in 1..Len(blocks) |->
        [blocks[b] EXCEPT !.lines =
            [k \in 1..Len(@) |->
                [@[k] EXCEPT !.attrs =
                    [a \in 1..NumberOfAttributes |->
                        IF @[a] \in Range(eraseList) THEN replaceWith ELSE @[a]]]]]]

\* ModifyErase on one device's parameters: the erased names are popped; the value
\* of the last one found is given to replaceWith unless the device holds it
EraseInDevice(data, replaceWith, eraseList) ==
    LET foundAt == SeqOfSet({n \in DOMAIN eraseList : eraseList[n] \in DOMAIN data})
        popped == [p \in (DOMAIN data) \ Range(eraseList) |-> data[p]]
    IN  IF foundAt # <<>> \/ replaceWith \in DOMAIN data
        THEN Put(popped, replaceWith,
                 IF replaceWith \in DOMAIN data THEN data[replaceWith]
                 ELSE data[eraseList[foundAt[Len(foundAt)]]])
        ELSE popped

RECURSIVE ModifyEraseAll(_, _, _)
\* the loop of MinimizeParameters over common, from group n on
ModifyEraseAll(common, n, st) ==
    IF n > Len(common) THEN st
    ELSE LET x == common[n]
             eraseList == Tail(x)
         IN  ModifyEraseAll(common, n + 1,
                [blocks |-> EraseInTemplate(st.blocks, x[1], eraseList),
                 parameters |-> [d \in DOMAIN st.parameters |->
                                    EraseInDevice(st.parameters[d], x[1], eraseList)]])

RECURSIVE SortAsc(_)
\* list.sort() on a list of identities
SortAsc(s) ==
    IF s = <<>> THEN <<>>
    ELSE LET k == CHOOSE i \in DOMAIN s : \A j \in DOMAIN s : s[i] <= s[j]
         IN  <<s[k]>> \o SortAsc([n \in 1..(Len(s) - 1) |-> IF n < k THEN s[n] ELSE s[n + 1]])

RECURSIVE GroupDevicesUnsorted(_, _, _, _)
\* GroupDevices without lines.sort(): the lists are compared as they are
GroupDevicesUnsorted(mapping, order, n, groups) ==
    IF n > Len(order) THEN groups
    ELSE LET device == order[n]
             Joined(lines, hit) ==
                IF hit # <<>>
                THEN [groups EXCEPT ![hit[1]].devices = @ \cup {device}]
                ELSE Append(groups, [lines |-> lines, devices |-> {device}])
             Look(lines) ==
                Joined(lines, SeqOfSet({g \in DOMAIN groups : groups[g].lines = lines}))
         IN  GroupDevicesUnsorted(mapping, order, n + 1, Look(mapping[device]))

RECURSIVE GroupDevices(_, _, _, _)
\* the first loop of predicateGenerator over the devices of lineMapping, from n on
GroupDevices(mapping, order, n, groups) ==
    IF n > Len(order) THEN groups
    ELSE LET device == order[n]
             Joined(lines, hit) ==
                IF hit # <<>>
                THEN [groups EXCEPT ![hit[1]].devices = @ \cup {device}]
                ELSE Append(groups, [lines |-> lines, devices |-> {device}])
             Look(lines) ==
                Joined(lines, SeqOfSet({g \in DOMAIN groups : groups[g].lines = lines}))
         IN  GroupDevices(mapping, order, n + 1, Look(SortAsc(mapping[device])))

RECURSIVE SameTruthTable(_, _, _, _)
\* the loop of predicateGenerator over bitMap, from line v on: lines with equal
\* bit lists are collected, in order of discovery
SameTruthTable(bitMap, v, totalLines, table) ==
    IF v > totalLines THEN table
    ELSE LET hit == SeqOfSet({t \in DOMAIN table : table[t].bits = bitMap[v]})
         IN  SameTruthTable(bitMap, v + 1, totalLines,
                IF hit # <<>>
                THEN [t \in 1..Len(table) |->
                        IF table[t].bits = bitMap[v]
                        THEN [table[t] EXCEPT !.lines = Append(@, v)] ELSE table[t]]
                ELSE Append(table, [bits |-> bitMap[v], lines |-> <<v>>]))

RECURSIVE NamePredicatesCountAll(_, _, _, _, _)
\* NamePredicates with counter += 1 after the if: A uses up a number too
NamePredicatesCountAll(table, n, allTrue, cnt, acc) ==
    IF n > Len(table) THEN acc
    ELSE IF table[n].bits # allTrue
    THEN NamePredicatesCountAll(table, n + 1, allTrue, cnt + 1,
            [map |-> Put(acc.map, PredName(cnt), table[n].lines),
             order |-> IF PredName(cnt) \in DOMAIN acc.map THEN acc.order
                       ELSE Append(acc.order, PredName(cnt))])
    ELSE NamePredicatesCountAll(table, n + 1, allTrue, cnt + 1,
            [map |-> Put(acc.map, "A", table[n].lines),
             order |-> IF "A" \in DOMAIN acc.map THEN acc.order
                       ELSE Append(acc.order, "A")])

RECURSIVE NamePredicates(_, _, _, _, _)
\* the last loop of predicateGenerator: "A" for the all-true bit list, R<k> else
NamePredicates(table, n, allTrue, cnt, acc) ==
    IF n > Len(table) THEN acc
    ELSE IF table[n].bits # allTrue
    THEN NamePredicates(table, n + 1, allTrue, cnt + 1,
            [map |-> Put(acc.map, PredName(cnt), table[n].lines),
             order |-> IF PredName(cnt) \in DOMAIN acc.map THEN acc.order
                       ELSE Append(acc.order, PredName(cnt))])
    ELSE NamePredicates(table, n + 1, allTrue, cnt,
            [map |-> Put(acc.map, "A", table[n].lines),
             order |-> IF "A" \in DOMAIN acc.map THEN acc.order
                       ELSE Append(acc.order, "A")])

\* predicateGenerator(totalLines): totalLines is the last line identity
predicateGenerator(mapping, order, totalLines) ==
    LET Generated(groups, named) ==
            [predicates |-> named.map,
             predOrder  |-> named.order,
             groupsList |-> groups,
             lineMapping |-> [d \in DOMAIN mapping |-> SortAsc(mapping[d])]]
        Name(groups, table) ==
            Generated(groups,
                      NamePredicates(table, 1, [g \in 1..Len(groups) |-> 1], 0,
                                     [map |-> EmptyMap, order |-> <<>>]))
        Tabulate(groups, bitMap) ==
            Name(groups, SameTruthTable(bitMap, 0, totalLines, <<>>))
        Bits(groups) ==
            Tabulate(groups,
                     [v \in 0..totalLines |->
                         [g \in 1..Len(groups) |->
                             IF v \in Range(groups[g].lines) THEN 1 ELSE 0]])
    IN  Bits(GroupDevices(mapping, order, 1, <<>>))

RECURSIVE SortTuplesByIndex(_, _)
\* predicateLineNTuples.sort() comparing the indices only: the lines stay in the
\* order they had
SortTuplesByIndex(linePredicateMap, idxs) ==
    IF idxs = {} THEN <<>>
    ELSE LET top == CHOOSE i \in idxs : \A e \in idxs : i <= e
         IN  <<top>> \o SortTuplesByIndex(linePredicateMap, idxs \ {top})

RECURSIVE SortTuples(_, _)
\* predicateLineNTuples.sort(): by predicate name, then by index in the block
SortTuples(linePredicateMap, idxs) ==
    IF idxs = {} THEN <<>>
    ELSE LET top == CHOOSE i \in idxs : \A e \in idxs :
                        \/ PredRank(linePredicateMap[i]) < PredRank(linePredicateMap[e])
                        \/ /\ PredRank(linePredicateMap[i]) = PredRank(linePredicateMap[e])
                           /\ i <= e
         IN  <<top>> \o SortTuples(linePredicateMap, idxs \ {top})

RECURSIVE SortBlocksRestart(_, _, _, _)
\* SortBlocks with seqN = 0 set inside the loop: every block is numbered from 0
SortBlocksRestart(blocks, linePredicateMap, b, st) ==
    IF b > Len(blocks) THEN st
    ELSE LET lines == blocks[b].lines
             modifiedBlockLines(sorted) ==
                [k \in 1..Len(sorted) |-> [lines[sorted[k]] EXCEPT !.num = k - 1]]
             o2n(sorted) ==
                [n \in (DOMAIN st.oldtoNewMap) \cup {lines[i].num : i \in DOMAIN lines} |->
                    IF \E k \in 1..Len(sorted) : lines[sorted[k]].num = n
                    THEN Max({k \in 1..Len(sorted) : lines[sorted[k]].num = n}) - 1
                    ELSE st.oldtoNewMap[n]]
             Sorted(sorted) ==
                [seqN |-> Len(lines),
                 oldtoNewMap |-> o2n(sorted),
                 newBlocks |-> Append(st.newBlocks,
                                      [blocks[b] EXCEPT !.lines = modifiedBlockLines(sorted)])]
         IN  SortBlocksRestart(blocks, linePredicateMap, b + 1,
                Sorted(SortTuples([i \in 1..Len(lines) |-> linePredicateMap[lines[i].num]],
                                  DOMAIN lines)))

RECURSIVE SortBlocks(_, _, _, _)
\* the loop of groupAndSortPredicates over the blocks, from block b on
SortBlocks(blocks, linePredicateMap, b, st) ==
    IF b > Len(blocks) THEN st
    ELSE LET lines == blocks[b].lines
             modifiedBlockLines(sorted) ==
                [k \in 1..Len(sorted) |->
                    [lines[sorted[k]] EXCEPT !.num = st.seqN + k - 1]]
             o2n(sorted) ==
                [n \in (DOMAIN st.oldtoNewMap) \cup {lines[i].num : i \in DOMAIN lines} |->
                    IF \E k \in 1..Len(sorted) : lines[sorted[k]].num = n
                    THEN st.seqN - 1
                           + Max({k \in 1..Len(sorted) : lines[sorted[k]].num = n})
                    ELSE st.oldtoNewMap[n]]
             Sorted(sorted) ==
                [seqN |-> st.seqN + Len(lines),
                 oldtoNewMap |-> o2n(sorted),
                 newBlocks |-> Append(st.newBlocks,
                                      [blocks[b] EXCEPT !.lines = modifiedBlockLines(sorted)])]
         IN  SortBlocks(blocks, linePredicateMap, b + 1,
                Sorted(SortTuples([i \in 1..Len(lines) |-> linePredicateMap[lines[i].num]],
                                  DOMAIN lines)))

\* groupAndSortPredicates
groupAndSortPredicates(blocks, mapping, preds, groups) ==
    LET linePredicateMap ==
            [n \in UNION {Range(preds[p]) : p \in DOMAIN preds} |->
                CHOOSE p \in DOMAIN preds : n \in Range(preds[p])]
        Renumbered(newBlocks, o2n) ==
            [blocks |-> newBlocks,
             oldtoNewMap |-> o2n,
             lineMapping |-> remapLineNumbers(mapping, o2n),
             predicates |-> [p \in DOMAIN preds |->
                                [k \in 1..Len(preds[p]) |-> o2n[preds[p][k]]]],
             groupsList |-> [g \in 1..Len(groups) |->
                                [groups[g] EXCEPT !.lines =
                                    [k \in 1..Len(@) |-> o2n[@[k]]]]]]
        Sorted(st) == Renumbered(st.newBlocks, st.oldtoNewMap)
    IN  Sorted(SortBlocks(blocks, linePredicateMap, 1,
                          [seqN |-> 0, oldtoNewMap |-> EmptyMap, newBlocks |-> <<>>]))

RECURSIVE RemapWalkKeep(_, _, _)
\* RemapWalk giving every parameter the name it has
RemapWalkKeep(tokens, n, oldtoNewParamMap) ==
    IF n > Len(tokens) THEN oldtoNewParamMap
    ELSE IF IsParam(tokens[n]) /\ tokens[n] \notin DOMAIN oldtoNewParamMap
    THEN RemapWalkKeep(tokens, n + 1, Put(oldtoNewParamMap, tokens[n], tokens[n]))
    ELSE RemapWalkKeep(tokens, n + 1, oldtoNewParamMap)

RECURSIVE RemapWalk(_, _, _)
\* the walk of RemapParameters over the tokens of the meta-template in block,
\* line, attribute order, from token n on: first occurrences get P0, P1, ...
RemapWalk(tokens, n, oldtoNewParamMap) ==
    IF n > Len(tokens) THEN oldtoNewParamMap
    ELSE IF IsParam(tokens[n]) /\ tokens[n] \notin DOMAIN oldtoNewParamMap
    THEN RemapWalk(tokens, n + 1,
                   Put(oldtoNewParamMap, tokens[n],
                       ParamName(Cardinality(DOMAIN oldtoNewParamMap))))
    ELSE RemapWalk(tokens, n + 1, oldtoNewParamMap)

\* newMap of RemapParameters for one device: every key is renamed by the map, a
\* key outside the map is kept (of two items that land on one key one survives)
RenameKeys(data, oldtoNewParamMap) ==
    LET New(k) == IF k \in DOMAIN oldtoNewParamMap THEN oldtoNewParamMap[k] ELSE k
    IN  [q \in {New(k) : k \in DOMAIN data} |->
            LET from == {k \in DOMAIN data : New(k) = q}
            IN  data[CHOOSE k \in from : \A e \in from : ParamIndex(e) <= ParamIndex(k)]]

\* RemapParameters
RemapParameters(blocks, params, mapping) ==
    LET Remapped(oldtoNewParamMap) ==
            [blocks |-> [b \in 1..Len(blocks) |->
                            [blocks[b] EXCEPT !.lines =
                                [k \in 1..Len(@) |->
                                    [@[k] EXCEPT !.attrs =
                                        [a \in 1..NumberOfAttributes |->
                                            IF IsParam(@[a]) THEN oldtoNewParamMap[@[a]]
                                            ELSE @[a]]]]]],
             counter |-> Cardinality(DOMAIN oldtoNewParamMap),
             parameters |-> [d \in DOMAIN params |->
                                RenameKeys(params[d], oldtoNewParamMap)],
             lineMapping |-> [d \in DOMAIN mapping |-> SortAsc(mapping[d])]]
        Tokens(ls) == Flatten([k \in 1..Len(ls) |-> ls[k].attrs])
    IN  Remapped(RemapWalk(Tokens(AllLines(blocks)), 1, EmptyMap))

\* MinimizeParameters: prune, coalesce, predicates, line order, parameter names
MinimizeParameters(blocks, params, mapping, order, cnt) ==
    LET Minimized(common, pg, gs, rp) ==
            [blocks |-> rp.blocks,
             parameters |-> rp.parameters,
             counter |-> rp.counter,
             lineMapping |-> rp.lineMapping,
             predicates |-> gs.predicates,
             predOrder |-> pg.predOrder,
             groupsList |-> gs.groupsList,
             oldtoNewMap |-> gs.oldtoNewMap,
             prePredicates |-> pg.predicates,
             common |-> common]
        Rename(common, erased, pg, gs) ==
            Minimized(common, pg, gs,
                      RemapParameters(gs.blocks, erased.parameters, gs.lineMapping))
        Order(common, erased, pg) ==
            Rename(common, erased, pg,
                   groupAndSortPredicates(erased.blocks, pg.lineMapping, pg.predicates,
                                          pg.groupsList))
        Predicates(common, erased) ==
            Order(common, erased,
                  predicateGenerator(mapping, order, LastLineNum(erased.blocks)))
        Erase(pruned, common) ==
            Predicates(common,
                       ModifyEraseAll(common, 1, [blocks |-> blocks, parameters |-> pruned]))
        Coalesce(pruned) == Erase(pruned, commonValueParams(pruned, cnt))
    IN  Coalesce(PruneParameters(blocks, params, mapping))


\* the rest of the driver once the templating loop has ended with a meta-template:
\* MinimizeParameters
Minimize ==
    /\ pc = "template"
    /\ templateIdx = Len(segments)
    /\ metaTemplate # NoTemplate
    /\ LET Store(m) ==
               /\ metaTemplate' = m.blocks
               /\ parameters' = m.parameters
               /\ counter' = m.counter
               /\ lineMapping' = m.lineMapping
               /\ predicates' = m.predicates
               /\ predOrder' = m.predOrder
               /\ groupsList' = m.groupsList
               /\ oldtoNewMap' = m.oldtoNewMap
               /\ prePredicates' = m.prePredicates
       IN  Store(MinimizeParameters(metaTemplate, parameters, lineMapping, deviceOrder,
                                    counter))
    /\ pc' = "exact"
    /\ UNCHANGED <<probe, flavor, devicesInfo, deviceIdx, foundDevices, emptyDefDevices, exactDefMatchMap,
                   exactOrder, segments, templateIdx, deviceOrder, templatingCount,
                   singleParamQ, spuriousQ, exactGroupSizes, result>>

\* no non-empty segment was found
NotFound ==
    /\ pc = "template"
    /\ templateIdx = Len(segments)
    /\ metaTemplate = NoTemplate
    /\ pc' = "done"
    /\ result' = "NotFound"
    /\ UNCHANGED <<probe, flavor, devicesInfo, deviceIdx, foundDevices, emptyDefDevices, exactDefMatchMap,
                   exactOrder, segments, templateIdx, metaTemplate, parameters,
                   lineMapping, deviceOrder, counter, predicates, predOrder, groupsList,
                   templatingCount, oldtoNewMap, prePredicates, singleParamQ, spuriousQ,
                   exactGroupSizes>>

-----------------------------------------------------------------------------
(* Exact-equivalent devices                                                *)

\* list.sort(reverse=True) on a list of numbers
SortDesc(s) == Reverse(SortAsc(s))

RECURSIVE FoldExactNoGroup(_, _, _, _)
\* FoldExact without tup[1].update(exactOnes): the groups are left as they are
FoldExactNoGroup(exactMap, order, n, st) ==
    IF n > Len(order) THEN st
    ELSE LET device == order[n]
             exactOnes == exactMap[device].exact
         IN  FoldExactNoGroup(exactMap, order, n + 1,
                [groupsList |-> st.groupsList,
                 groupSizes |-> Append(st.groupSizes, Cardinality(exactOnes) + 1),
                 lineMapping |-> [r \in (DOMAIN st.lineMapping) \cup exactOnes |->
                                    IF r \in exactOnes THEN st.lineMapping[device]
                                    ELSE st.lineMapping[r]],
                 parameters |-> [r \in (DOMAIN st.parameters) \cup exactOnes |->
                                    IF r \in exactOnes THEN st.parameters[device]
                                    ELSE st.parameters[r]]])

RECURSIVE FoldExact(_, _, _, _)
\* the loop of addExactRouters over exactMap, from router n on
FoldExact(exactMap, order, n, st) ==
    IF n > Len(order) THEN st
    ELSE LET device == order[n]
             exactOnes == exactMap[device].exact
             hit == SeqOfSet({g \in DOMAIN st.groupsList : device \in st.groupsList[g].devices})
             groups == IF hit = <<>> THEN st.groupsList
                       ELSE [st.groupsList EXCEPT ![hit[1]].devices = @ \cup exactOnes]
         IN  FoldExact(exactMap, order, n + 1,
                [groupsList |-> groups,
                 groupSizes |-> Append(st.groupSizes, Cardinality(exactOnes) + 1),
                 lineMapping |-> [r \in (DOMAIN st.lineMapping) \cup exactOnes |->
                                    IF r \in exactOnes THEN st.lineMapping[device]
                                    ELSE st.lineMapping[r]],
                 parameters |-> [r \in (DOMAIN st.parameters) \cup exactOnes |->
                                    IF r \in exactOnes THEN st.parameters[device]
                                    ELSE st.parameters[r]]])

addExactRouters(exactMap, order, groups, mapping, params) ==
    [FoldExact(exactMap, order, 1,
               [groupsList |-> groups, groupSizes |-> <<>>,
                lineMapping |-> mapping, parameters |-> params])
        EXCEPT !.groupSizes = SortDesc(@)]

AddExact ==
    /\ pc = "exact"
    /\ LET Store(e) ==
               /\ groupsList' = e.groupsList
               /\ lineMapping' = e.lineMapping
               /\ parameters' = e.parameters
               /\ exactGroupSizes' = e.groupSizes
       IN  Store(addExactRouters(exactDefMatchMap, exactOrder, groupsList, lineMapping,
                                 parameters))
    /\ pc' = "print"
    /\ UNCHANGED <<probe, flavor, devicesInfo, deviceIdx, foundDevices, emptyDefDevices, exactDefMatchMap,
                   exactOrder, segments, templateIdx, metaTemplate, deviceOrder, counter,
                   predicates, predOrder, templatingCount, oldtoNewMap, prePredicates,
                   singleParamQ, spuriousQ, result>>

-----------------------------------------------------------------------------
(* Outlier reporter and classification                                     *)

RECURSIVE SortBySize(_)
\* groupsList.sort(key=len of the device set, reverse=True): stable
SortBySize(groups) ==
    IF groups = <<>> THEN <<>>
    ELSE LET k == CHOOSE i \in DOMAIN groups : \A j \in DOMAIN groups :
                      \/ Cardinality(groups[i].devices) > Cardinality(groups[j].devices)
                      \/ /\ Cardinality(groups[i].devices) = Cardinality(groups[j].devices)
                         /\ i <= j
         IN  <<groups[k]>> \o
             SortBySize([n \in 1..(Len(groups) - 1) |->
                            IF n < k THEN groups[n] ELSE groups[n + 1]])

\* singleParamQuestions with the count compared with 0.09 times the number of
\* devices holding the parameter, not with 0.09 times the average count of a value
singleParamQuestionsOfTotal(params) ==
    LET names == UNION {DOMAIN params[d] : d \in DOMAIN params}
        Defining(p) == {d \in DOMAIN params : p \in DOMAIN params[d]}
        Values(p) == {params[d][p] : d \in Defining(p)}
        Holders(p, v) == {d \in Defining(p) : params[d][p] = v}
        Reports(p) ==
            {[param |-> p, value |-> v, routers |-> Holders(p, v),
              total |-> Cardinality(Defining(p))] :
                v \in {w \in Values(p) :
                         100 * Cardinality(Holders(p, w))
                            < SINGLE_PARAM_THRESHOLD * Cardinality(Defining(p))}}
    IN  UNION {Reports(p) : p \in names}

\* singleParamQuestions: one report per parameter value held by fewer devices
\* than SINGLE_PARAM_THRESHOLD (0.09) times the average count of a value of the
\* parameter: count < 0.09 * (totalCount / values), in hundredths
singleParamQuestions(params) ==
    LET names == UNION {DOMAIN params[d] : d \in DOMAIN params}
        Defining(p) == {d \in DOMAIN params : p \in DOMAIN params[d]}
        Values(p) == {params[d][p] : d \in Defining(p)}
        Holders(p, v) == {d \in Defining(p) : params[d][p] = v}
        Reports(p) ==
            {[param |-> p, value |-> v, routers |-> Holders(p, v),
              total |-> Cardinality(Defining(p))] :
                v \in {w \in Values(p) :
                         100 * Cardinality(Holders(p, w)) * Cardinality(Values(p))
                            < SINGLE_PARAM_THRESHOLD * Cardinality(Defining(p))}}
    IN  UNION {Reports(p) : p \in names}

\* spuriousParamQuestions with <= for < in the comparison with the threshold
spuriousParamQuestionsInclusive(params, cnt) ==
    LET Both(i, j) == {d \in DOMAIN params : /\ ParamName(i) \in DOMAIN params[d]
                                             /\ ParamName(j) \in DOMAIN params[d]}
        same(i, j) == {d \in Both(i, j) : params[d][ParamName(i)] = params[d][ParamName(j)]}
        different(i, j) == Both(i, j) \ same(i, j)
    IN  {[first |-> ParamName(c[1]), second |-> ParamName(c[2]),
          same |-> Cardinality(same(c[1], c[2])), different |-> different(c[1], c[2])] :
            c \in {e \in (0..(cnt - 1)) \X (0..(cnt - 1)) :
                     /\ e[1] < e[2]
                     /\ 100 * Cardinality(different(e[1], e[2]))
                           <= SPURIOUS_PARAM_THRESHOLD * Cardinality(Both(e[1], e[2]))
                     /\ Cardinality(different(e[1], e[2])) > 0}}

\* spuriousParamQuestions: one report per pair Pi, Pj (i < j) whose values differ
\* on some, but on fewer than SPURIOUS_PARAM_THRESHOLD (0.05) of, the devices that
\* hold both
spuriousParamQuestions(params, cnt) ==
    LET Both(i, j) == {d \in DOMAIN params : /\ ParamName(i) \in DOMAIN params[d]
                                             /\ ParamName(j) \in DOMAIN params[d]}
        same(i, j) == {d \in Both(i, j) : params[d][ParamName(i)] = params[d][ParamName(j)]}
        different(i, j) == Both(i, j) \ same(i, j)
    IN  {[first |-> ParamName(c[1]), second |-> ParamName(c[2]),
          same |-> Cardinality(same(c[1], c[2])), different |-> different(c[1], c[2])] :
            c \in {e \in (0..(cnt - 1)) \X (0..(cnt - 1)) :
                     /\ e[1] < e[2]
                     /\ 100 * Cardinality(different(e[1], e[2]))
                           < SPURIOUS_PARAM_THRESHOLD * Cardinality(Both(e[1], e[2]))
                     /\ Cardinality(different(e[1], e[2])) > 0}}

\* PrintTemplate with the output decided by the number of groups alone
PrintTemplateGroupsOnly(groups, params, cnt) ==
    LET Printed(sorted, singleParamDifferences, spuriousParamDifferences) ==
            [groupsList |-> sorted,
             singleParamQ |-> singleParamDifferences,
             spuriousQ |-> spuriousParamDifferences,
             output |-> Len(sorted) > 1]
    IN  Printed(SortBySize(groups), singleParamQuestions(params),
                spuriousParamQuestions(params, cnt))

\* PrintTemplate: the groups sorted by size, the two reports, and whether an
\* output text is returned (None otherwise)
PrintTemplate(groups, params, cnt) ==
    LET Printed(sorted, singleParamDifferences, spuriousParamDifferences) ==
            [groupsList |-> sorted,
             singleParamQ |-> singleParamDifferences,
             spuriousQ |-> spuriousParamDifferences,
             output |-> \/ Len(sorted) > 1
                        \/ singleParamDifferences # {}
                        \/ spuriousParamDifferences # {}]
    IN  Printed(SortBySize(groups), singleParamQuestions(params),
                spuriousParamQuestions(params, cnt))

\* Classification without the test of parametersLines.counter
ClassificationNoCounter(output, tCount, cnt) ==
    IF output THEN "Inconsistent"
    ELSE IF tCount = 0 THEN "Exact Consistency"
    ELSE "Consistent"

\* the classification StructuredGeneralization returns after PrintTemplate
Classification(output, tCount, cnt) ==
    IF output THEN "Inconsistent"
    ELSE IF tCount = 0 THEN "Exact Consistency"
    ELSE IF cnt = 0 THEN "Reorder Consistency"
    ELSE "Consistent"

\* str() of a set of device names: the names in the iteration order of the
\* set.  The names are strings, whose hashes change from one run of the
\* interpreter to the next, so every order can come out
Orders(S) ==
    {s \in [1..Cardinality(S) -> S] : \A i, j \in 1..Cardinality(S) : i # j => s[i] # s[j]}

\* the texts singleParamQuestions can return for its reports: every report with
\* its set of routers printed in one of its orders
SingleTexts(reports) ==
    {{[param |-> r.param, value |-> r.value, routers |-> r.routers, total |-> r.total,
       text |-> f[r]] : r \in reports} :
        f \in {g \in [reports -> UNION {Orders(r.routers) : r \in reports}] :
                 \A r \in reports : g[r] \in Orders(r.routers)}}

\* the texts spuriousParamQuestions can return for its reports
SpuriousTexts(reports) ==
    {{[first |-> r.first, second |-> r.second, same |-> r.same, different |-> r.different,
       text |-> f[r]] : r \in reports} :
        f \in {g \in [reports -> UNION {Orders(r.different) : r \in reports}] :
                 \A r \in reports : g[r] \in Orders(r.different)}}

\* PrintTemplate and the return of the driver
Report ==
    /\ pc = "print"
    /\ LET Return(p) ==
               /\ groupsList' = p.groupsList
               /\ singleParamQ' \in SingleTexts(p.singleParamQ)
               /\ spuriousQ' \in SpuriousTexts(p.spuriousQ)
               /\ result' = Classification(p.output, templatingCount, counter)
       IN  Return(PrintTemplate(groupsList, parameters, counter))
    /\ pc' = "done"
    /\ UNCHANGED <<probe, flavor, devicesInfo, deviceIdx, foundDevices, emptyDefDevices, exactDefMatchMap,
                   exactOrder, segments, templateIdx, metaTemplate, parameters,
                   lineMapping, deviceOrder, counter, predicates, predOrder,
                   templatingCount, oldtoNewMap, prePredicates, exactGroupSizes>>

-----------------------------------------------------------------------------
(* Specification                                                           *)

Next ==
    \/ Collect
    \/ CollectCopies
    \/ EndCollect
    \/ Seed
    \/ Merge
    \/ Minimize
    \/ NotFound
    \/ AddExact
    \/ Report

Spec == Init /\ [][Next]_vars

\* the runs over two devices with longer segments
NextReorder ==
    \/ CollectPair
    \/ EndCollectPair
    \/ Seed
    \/ Merge
    \/ Minimize
    \/ NotFound
    \/ AddExact
    \/ Report

SpecReorder == Init /\ [][NextReorder]_vars

\* the runs of the driver under the ACL function map of main.py: the family of a
\* JSON line stands for the protocol of the ACL line, which is its identity tag
InitACL == Idle("ACL", NoProbe)

SpecACL == InitACL /\ [][Next]_vars

-----------------------------------------------------------------------------
(* Runs of the driver over a fleet: many devices with the same segment     *)

\* the lines of the fleet runs: one action, one family
FleetLines == {[action |-> "permit", family |-> "ipv4", vals |-> Stair(k)] : k \in 0..NumAttrs}

\* the segment JSONs of the fleet runs: no line or one line
FleetSegments == SeqsUpTo(FleetLines, 1)

\* the names of the further devices of a fleet of n
FleetNames(n) == {100 + i : i \in 1..n}

\* the device loop over the first MaxDevices devices of a fleet run
CollectFleetDevice ==
    /\ pc = "collect"
    /\ deviceIdx < MaxDevices
    /\ \E json \in FleetSegments :
          /\ devicesInfo' = Put(devicesInfo, deviceIdx + 1, json)
          /\ GetBlockSequence(deviceIdx + 1, json)
    /\ deviceIdx' = deviceIdx + 1
    /\ UNCHANGED <<probe, flavor, pc, templateIdx, metaTemplate, parameters, lineMapping,
                   deviceOrder, counter, predicates, predOrder, groupsList,
                   templatingCount, oldtoNewMap, prePredicates, singleParamQ,
                   spuriousQ, exactGroupSizes, result>>

\* n further devices of devicesInfo, up to MaxFleet, whose segment JSON equals
\* that of a router already seen: n iterations of the device loop, each ending in
\* checkJSONEquality adding the device to that router's set
CollectFleet ==
    /\ pc = "collect"
    /\ deviceIdx = MaxDevices
    /\ foundDevices \cap FleetNames(MaxFleet) = {}
    /\ \E r \in Range(exactOrder), n \in 1..MaxFleet :
          /\ devicesInfo' = [d \in (DOMAIN devicesInfo) \cup FleetNames(n) |->
                                IF d \in FleetNames(n) THEN exactDefMatchMap[r].json
                                ELSE devicesInfo[d]]
          /\ exactDefMatchMap' = [exactDefMatchMap EXCEPT ![r].exact = @ \cup FleetNames(n)]
          /\ foundDevices' = foundDevices \cup FleetNames(n)
    /\ UNCHANGED <<probe, flavor, pc, deviceIdx, emptyDefDevices, exactOrder, segments,
                   templateIdx, metaTemplate, parameters, lineMapping, deviceOrder,
                   counter, predicates, predOrder, groupsList, templatingCount,
                   oldtoNewMap, prePredicates, singleParamQ, spuriousQ,
                   exactGroupSizes, result>>

NextFleet ==
    \/ CollectFleetDevice
    \/ CollectFleet
    \/ EndCollect
    \/ Seed
    \/ Merge
    \/ Minimize
    \/ NotFound
    \/ AddExact
    \/ Report

SpecFleet == Init /\ [][NextFleet]_vars

-----------------------------------------------------------------------------
(* Direct calls of LineScore, BipartiteMatching and AlignSequences         *)

Flavors == {"PrefixList", "ACL"}

\* the state the driver keeps: a direct call of a function leaves it alone
driverVars == <<flavor, devicesInfo, pc, deviceIdx, foundDevices, emptyDefDevices,
                exactDefMatchMap, exactOrder, segments, templateIdx, metaTemplate,
                parameters, lineMapping, deviceOrder, counter, predicates, predOrder,
                groupsList, templatingCount, oldtoNewMap, prePredicates, singleParamQ,
                spuriousQ, exactGroupSizes, result>>

\* the paramValueMaps handed to the calls: no parameter yet, or P0 with the value "0"
CallParamValueMaps ==
    {parameterDistribution(EmptyMap),
     parameterDistribution(Put(EmptyMap, 1, Put(EmptyMap, ParamName(0), "0")))}

\* a line of the meta-template holds only parameters the paramValueMap knows
KnownParams(lines, paramValueMap) ==
    \A k \in DOMAIN lines : LineParams(lines[k]) \subseteq DOMAIN paramValueMap

\* the lines handed to LineScore: a template line holds literals, the parameter
\* P0 or nothing at an attribute; a device line holds literals or nothing
ScoreTemplateLines ==
    {[tag |-> g, num |-> 0, attrs |-> a] :
        g \in {0, 1}, a \in [1..NumAttrs -> Literals \cup {"", ParamName(0)}]}

ScoreDeviceLines ==
    {[tag |-> g, num |-> 0, attrs |-> a] : g \in {0, 1}, a \in [1..NumAttrs -> Literals \cup {""}]}

LineScoreCalls ==
    {[kind |-> "LineScore", args |-> [templateLine |-> t, deviceLine |-> d, paramValueMap |-> pvm],
      returned |-> FALSE, out |-> 0] :
        t \in ScoreTemplateLines, d \in ScoreDeviceLines,
        pvm \in CallParamValueMaps}

\* the first attribute is token, the others are "0"
FirstIs(token) == [i \in 1..NumAttrs |-> IF i = 1 THEN token ELSE "0"]

\* a line sequence: the lines of given tags and attributes, identities first, first+1, ...
LineSeq(contents, first) ==
    [k \in 1..Len(contents) |->
        [tag |-> contents[k][1], num |-> first + k - 1, attrs |-> contents[k][2]]]

\* the line sequences handed to BipartiteMatching: of one or two lines
MatcherTemplateSeqs ==
    {LineSeq(c, 0) :
        c \in SeqsUpTo({0, 1} \X {FirstIs("0"), FirstIs(ParamName(0)), FirstIs("")},
                       MaxMatcherLines) \ {<<>>}}

MatcherDeviceSeqs ==
    {LineSeq(c, 0) :
        c \in SeqsUpTo({0, 1} \X {FirstIs("0"), FirstIs("1"), FirstIs("")},
                       MaxMatcherLines) \ {<<>>}}

MatcherCalls ==
    {[kind |-> "BipartiteMatching", args |-> [LS1 |-> a, LS2 |-> b, paramValueMap |-> pvm],
      returned |-> FALSE, out |-> 0] :
        a \in MatcherTemplateSeqs, b \in MatcherDeviceSeqs, pvm \in CallParamValueMaps}

\* the block sequences handed to AlignSequences: parsed segments of up to
\* MaxPairLines lines
AlignerSeqs == {createBlocks(json) : json \in PairSegments \ {<<>>}}

AlignerCalls ==
    {[kind |-> "AlignSequences", args |-> [bs1 |-> a, bs2 |-> b, paramValueMap |-> EmptyMap],
      returned |-> FALSE, out |-> 0] :
        a \in AlignerSeqs, b \in AlignerSeqs}

\* a segment of LargeBlockLines equal lines of one action: one large block
LargeSegment(action) ==
    [k \in 1..LargeBlockLines |-> [action |-> action, family |-> "ipv4", vals |-> Stair(NumAttrs)]]

\* createBlocks on a segment whose lines have one action: the single block of
\* all its lines, numbered from 0
LargeBlocks(action) == <<Block(0, action, LargeSegment(action))>>

\* AlignSequences on two large blocks of one action
LargeSameAction ==
    {[kind |-> "AlignSequences",
      args |-> [bs1 |-> LargeBlocks(a), bs2 |-> LargeBlocks(a), paramValueMap |-> EmptyMap],
      returned |-> FALSE, out |-> 0] : a \in Actions}

\* AlignSequences on two large blocks of different actions
LargeAlignerCalls ==
    {[kind |-> "AlignSequences",
      args |-> [bs1 |-> LargeBlocks(a), bs2 |-> LargeBlocks(b), paramValueMap |-> EmptyMap],
      returned |-> FALSE, out |-> 0] :
        a \in Actions, b \in Actions} \ LargeSameAction

\* the arguments are ones the callers can pass
Callable(call) ==
    /\ call.kind = "LineScore" => KnownParams(<<call.args.templateLine>>, call.args.paramValueMap)
    /\ call.kind = "BipartiteMatching" => KnownParams(call.args.LS1, call.args.paramValueMap)

InitCalls ==
    \E fl \in Flavors :
       \/ \E call \in LineScoreCalls : Callable(call) /\ Idle(fl, call)
       \/ \E call \in MatcherCalls : Callable(call) /\ Idle(fl, call)
       \/ \E call \in AlignerCalls : Idle(fl, call)
       \/ \E call \in LargeAlignerCalls : Idle(fl, call)

ReturnValue(value) ==
    /\ probe' = [probe EXCEPT !.returned = TRUE, !.out = value]
    /\ UNCHANGED driverVars

CallLineScore ==
    /\ probe.kind = "LineScore"
    /\ ~probe.returned
    /\ ReturnValue(LineScore(flavor, probe.args.templateLine, probe.args.deviceLine,
                        probe.args.paramValueMap))

CallBipartiteMatching ==
    /\ probe.kind = "BipartiteMatching"
    /\ ~probe.returned
    /\ ReturnValue(BipartiteMatching(flavor, probe.args.LS1, probe.args.LS2,
                                probe.args.paramValueMap))

\* AlignSequences: the filled matrix and what the traceback makes of it
CallAlignSequences ==
    /\ probe.kind = "AlignSequences"
    /\ ~probe.returned
    /\ ReturnValue([dp |-> DPMatrix(flavor, probe.args.bs1, probe.args.bs2,
                               probe.args.paramValueMap),
               alignment |-> AlignBlocks(flavor, probe.args.bs1, probe.args.bs2,
                                         probe.args.paramValueMap)])

NextCalls ==
    \/ CallLineScore
    \/ CallBipartiteMatching
    \/ CallAlignSequences

SpecCalls == InitCalls /\ [][NextCalls]_vars

-----------------------------------------------------------------------------
(* Claims                                                                  *)

\* MinimizeParameters has run and no exception has left the driver
AfterMinimize == pc \in {"exact", "print", "done"} /\ result \notin {"Error", "NotFound"}

\* addExactRouters has run
AfterExact == pc \in {"print", "done"} /\ result \notin {"Error", "NotFound"}

\* the devices that went through the templating loop
Retained == Range(deviceOrder)

\* the lines of the meta-template
TemplateLines == AllLines(metaTemplate)

\* the identities of the lines of the meta-template
TemplateIds == {TemplateLines[k].num : k \in DOMAIN TemplateLines}

\* a list as a multiset
BagOf(s) == [c \in Range(s) |-> Cardinality({i \in DOMAIN s : s[i] = c})]

\* a meta-template line with every parameter name replaced by the device's value
Instantiated(d, line) ==
    [tag   |-> line.tag,
     attrs |-> [a \in 1..NumAttrs |->
                  IF IsParam(line.attrs[a]) /\ line.attrs[a] \in DOMAIN parameters[d]
                  THEN parameters[d][line.attrs[a]] ELSE line.attrs[a]]]

\* the meta-template restricted to the lines of device d and instantiated for d:
\* per block that holds a line of d, its action and the multiset of its lines
InstanceOf(d) ==
    LET Mine(b) == SeqOfSet({k \in DOMAIN metaTemplate[b].lines : metaTemplate[b].lines[k].num \in Range(lineMapping[d])})
        AsBlock(b, mine) ==
            [action |-> metaTemplate[b].action,
             lines  |-> BagOf([k \in 1..Len(mine) |->
                                  Instantiated(d, metaTemplate[b].lines[mine[k]])])]
        Blocks(bs) == [n \in 1..Len(bs) |-> AsBlock(bs[n], Mine(bs[n]))]
    IN  Blocks(SeqOfSet({b \in DOMAIN metaTemplate : Mine(b) # <<>>}))

\* the original segment of device d: per block, its action and the multiset of its lines
OriginalOf(d) ==
    LET Blocks(bs) ==
            [n \in 1..Len(bs) |->
                [action |-> bs[n].action,
                 lines  |-> BagOf([k \in 1..Len(bs[n].lines) |-> Content(bs[n].lines[k])])]]
    IN  Blocks(createBlocks(devicesInfo[d]))

\* C1: after all merges and MinimizeParameters, the meta-template lines of every
\* merged device, with the device's parameter values filled in, are block by
\* block the lines of the device's original segment (as multisets)
C1_RoundTrip ==
    AfterMinimize => \A d \in Retained : InstanceOf(d) = OriginalOf(d)

\* the parameter names on the meta-template lines of device d
NamesOnLinesOf(d) ==
    UNION {LineParams(TemplateLines[k]) :
              k \in {x \in DOMAIN TemplateLines :
                        TemplateLines[x].num \in Range(lineMapping[d])}}

\* C2: after MinimizeParameters the keys of parameters[d] are exactly the
\* parameter names on the meta-template lines of d, for every device d
C2_ParameterCoverage ==
    AfterMinimize => \A d \in DOMAIN parameters : DOMAIN parameters[d] = NamesOnLinesOf(d)

\* the places (predicate, position) of the predicates' line lists that hold n
PlacesOf(n) ==
    {pk \in UNION {{<<p, k>> : k \in DOMAIN predicates[p]} : p \in DOMAIN predicates} :
        predicates[pk[1]][pk[2]] = n}

\* C3: after MinimizeParameters the line lists of the predicates are pairwise
\* disjoint and their union is the set of all line identities [0, totalLines):
\* every identity is at exactly one place
C3_PredicatePartition ==
    AfterMinimize =>
        /\ TemplateIds = 0..(Len(TemplateLines) - 1)
        /\ UNION {Range(predicates[p]) : p \in DOMAIN predicates} = TemplateIds
        /\ \A n \in TemplateIds : Cardinality(PlacesOf(n)) = 1

C3_Witness ==
    /\ AfterMinimize
    /\ templatingCount >= 1
    /\ Cardinality(DOMAIN predicates) >= 2
    /\ \E p \in DOMAIN predicates : Len(predicates[p]) >= 2

\* the groups whose linesPresent holds line n
PresenceOf(n) == {g \in DOMAIN groupsList : n \in Range(groupsList[g].lines)}

\* the predicates whose list holds line n
PredsOf(n) == {p \in DOMAIN predicates : n \in Range(predicates[p])}

\* the predicates other than A
Rs == (DOMAIN predicates) \ {"A"}

\* C4: two lines are in the same predicate iff every group holds both or
\* neither; A holds exactly the lines present in every group and is absent when
\* there is none; the others are R0 .. R(k-1), in the order of their smallest
\* identity before the renumbering
C4_PredicateMeaning ==
    AfterMinimize =>
        /\ \A m, n \in TemplateIds :
              (PredsOf(m) \cap PredsOf(n) # {}) <=> (PresenceOf(m) = PresenceOf(n))
        /\ \A n \in TemplateIds :
              ("A" \in PredsOf(n)) <=> (PresenceOf(n) = DOMAIN groupsList)
        /\ ("A" \in DOMAIN predicates) <=>
              (\E n \in TemplateIds : PresenceOf(n) = DOMAIN groupsList)
        /\ Rs = {PredName(i) : i \in 0..(Cardinality(Rs) - 1)}
        /\ DOMAIN prePredicates = DOMAIN predicates
        /\ \A i, j \in 0..(Cardinality(Rs) - 1) :
              i < j => Min(Range(prePredicates[PredName(i)]))
                          < Min(Range(prePredicates[PredName(j)]))

C4_Witness ==
    /\ pc = "done"
    /\ Cardinality(Rs) >= 2
    /\ "A" \in DOMAIN predicates
    /\ \E n \in DOMAIN oldtoNewMap : oldtoNewMap[n] # n

\* C5: after MinimizeParameters and addExactRouters the device sets of the
\* groups are pairwise disjoint and their union is foundDevices
C5_GroupPartition ==
    AfterExact =>
        /\ \A g, h \in DOMAIN groupsList :
              g # h => groupsList[g].devices \cap groupsList[h].devices = {}
        /\ UNION {groupsList[g].devices : g \in DOMAIN groupsList} = foundDevices

C5_Witness ==
    /\ pc = "done"
    /\ Len(groupsList) >= 2
    /\ \E g \in DOMAIN groupsList : groupsList[g].devices \ Retained # {}

\* C6: every device of a group has the group's lines as its lineMapping entry
\* (as sets), and two devices are in one group iff their entries hold the same
\* identities; no two groups have the same lines
C6_GroupMembership ==
    AfterMinimize =>
        /\ \A g \in DOMAIN groupsList : \A d \in groupsList[g].devices :
              Range(groupsList[g].lines) = Range(lineMapping[d])
        /\ \A d, e \in DOMAIN lineMapping :
              (\E g \in DOMAIN groupsList : {d, e} \subseteq groupsList[g].devices)
                 <=> (Range(lineMapping[d]) = Range(lineMapping[e]))
        /\ \A g, h \in DOMAIN groupsList :
              g # h => Range(groupsList[g].lines) # Range(groupsList[h].lines)

C6_Witness ==
    /\ pc = "done"
    /\ Len(groupsList) >= 2
    /\ \E g \in DOMAIN groupsList : Cardinality(groupsList[g].devices \cap Retained) >= 2

\* all devices with a non-empty segment have the same segment JSON
AllEqualJson ==
    /\ foundDevices # {}
    /\ \A d, e \in foundDevices : devicesInfo[d] = devicesInfo[e]

\* C7: when all non-empty segment JSONs are equal, one segment is retained, no
\* merge is performed, no parameter is created, the groups are one group of all
\* the devices and the classification is "Exact Consistency"
C7_ExactFastPath ==
    (pc = "done" /\ AllEqualJson) =>
        /\ Len(segments) = 1
        /\ templatingCount = 0
        /\ counter = 0
        /\ Len(groupsList) = 1
        /\ groupsList[1].devices = foundDevices
        /\ result = "Exact Consistency"

C7_Witness ==
    /\ pc = "done"
    /\ AllEqualJson
    /\ Cardinality(foundDevices) >= 2
    /\ result = "Exact Consistency"

\* the two devices read have segments with the same sequence of block actions
\* and, block by block, the same multiset of lines, and both are retained
ReorderPair ==
    /\ DOMAIN devicesInfo = {1, 2}
    /\ Len(segments) = 2
    /\ OriginalOf(1) = OriginalOf(2)

\* what AlignSequences computes for the second segment of the templating loop
PairAlignment ==
    AlignBlocks(flavor, metaTemplate, segments[TemplatingOrder[2]].blocks,
                parameterDistribution(
                    Put(parameters, segments[TemplatingOrder[2]].deviceName, EmptyMap)))

\* the line matchings AlignSequences can return for the second segment
PairMatchings ==
    MatchingChoices(flavor, metaTemplate, segments[TemplatingOrder[2]].blocks,
                    PairAlignment.diag,
                    parameterDistribution(
                        Put(parameters, segments[TemplatingOrder[2]].deviceName,
                            EmptyMap)))

\* C8: for two devices whose segments are equal up to the order of the lines
\* inside each block, the aligner pairs the blocks diagonally at score 0 with
\* every line paired, the merge creates no parameter, counter is 0 after the
\* minimization and there is a single group
C8_ReorderStability ==
    ReorderPair =>
        /\ (pc = "template" /\ templateIdx = 1) =>
              /\ PairAlignment.error = None
              /\ PairAlignment.score = 0
              /\ PairAlignment.diag = [k \in 1..Len(metaTemplate) |-> <<k, k>>]
              /\ \A lm \in PairMatchings : \A k \in 1..Len(lm) :
                    Len(lm[k]) = Len(metaTemplate[k].lines)
        /\ (pc = "template" /\ templateIdx = 2) =>
              /\ counter = 0
              /\ \A d \in DOMAIN parameters : DOMAIN parameters[d] = {}
        /\ AfterMinimize => (counter = 0 /\ Len(groupsList) = 1)

C8_Witness ==
    /\ ReorderPair
    /\ pc = "done"
    /\ Len(metaTemplate) = 2
    /\ \E b \in 1..Len(metaTemplate) : \E k \in 1..Len(metaTemplate[b].lines) :
          /\ Len(metaTemplate[b].lines) >= 2
          /\ metaTemplate[b].lines[k].attrs[1] = ""

\* C9: with a non-empty segment found the classification is "Inconsistent" iff
\* there is more than one group or an outlier text is not empty; with none found
\* it is "NotFound"
C9_Inconsistent ==
    pc = "done" =>
        IF foundDevices # {}
        THEN (result = "Inconsistent") <=>
                (Len(groupsList) > 1 \/ singleParamQ # {} \/ spuriousQ # {})
        ELSE result = "NotFound"

C9_Witness ==
    pc = "done" /\ result = "Inconsistent" /\ Len(groupsList) = 1 /\ spuriousQ # {}

\* C10 as stated: whenever a merge was performed and counter is 0 after the
\* minimization, the classification is "Reorder Consistency"
C10_AsStated ==
    (pc = "done" /\ templatingCount >= 1 /\ counter = 0) => result = "Reorder Consistency"

\* C10 amended: whenever a merge was performed, counter is 0 after the
\* minimization and there is a single group, the classification is
\* "Reorder Consistency"
C10_ReorderConsistency ==
    (pc = "done" /\ templatingCount >= 1 /\ counter = 0 /\ Len(groupsList) = 1)
        => result = "Reorder Consistency"

C10_Witness ==
    pc = "done" /\ templatingCount >= 1 /\ counter = 0 /\ Len(groupsList) = 1

-----------------------------------------------------------------------------
(* Claims on the matcher, the aligner and the merger                       *)

\* a merge is about to happen
MergePending == pc = "template" /\ templateIdx > 0 /\ templateIdx < Len(segments)

\* the segment the next merge adds to the meta-template
NextSegment == segments[TemplatingOrder[templateIdx + 1]]

\* the paramValueMap of the next merge
NextParamValueMap ==
    parameterDistribution(Put(parameters, NextSegment.deviceName, EmptyMap))

\* two retained ACL segments, each one block of the same action with one line,
\* whose lines differ in protocol
ProtocolMismatch ==
    /\ flavor = "ACL"
    /\ Len(segments) = 2
    /\ \A k \in 1..2 : Len(segments[k].blocks) = 1 /\ Len(segments[k].blocks[1].lines) = 1
    /\ segments[1].blocks[1].action = segments[2].blocks[1].action
    /\ segments[1].blocks[1].lines[1].tag # segments[2].blocks[1].lines[1].tag

\* the matcher's result on the single block pair of the pending merge
PendingMatch ==
    BipartiteMatching(flavor, metaTemplate[1].lines, NextSegment.blocks[1].lines,
                      NextParamValueMap)

\* the part of C11 that does not depend on the amount: the line pair scores
\* INFINITY and no pair is matched; after the merge the meta-template is one
\* block with the two lines, and the new device maps to its own line only
ProtocolMismatchOutcome ==
    /\ (ProtocolMismatch /\ MergePending) =>
          /\ LineScore(flavor, metaTemplate[1].lines[1], NextSegment.blocks[1].lines[1],
                       NextParamValueMap) = INFINITY
          /\ PendingMatch.matched = {<<>>}
    /\ (ProtocolMismatch /\ pc = "template" /\ templateIdx = 2) =>
          /\ Len(metaTemplate) = 1
          /\ Len(metaTemplate[1].lines) = 2
          /\ metaTemplate[1].lines[1].num # metaTemplate[1].lines[2].num
          /\ {Content(metaTemplate[1].lines[k]) : k \in 1..2}
                = {Content(segments[k].blocks[1].lines[1]) : k \in 1..2}
          /\ \A k \in 1..2 :
                /\ Len(lineMapping[deviceOrder[k]]) = 1
                /\ \E n \in 1..2 :
                      /\ metaTemplate[1].lines[n].num = lineMapping[deviceOrder[k]][1]
                      /\ Content(metaTemplate[1].lines[n])
                            = Content(segments[TemplatingOrder[k]].blocks[1].lines[1])
          /\ lineMapping[deviceOrder[1]] # lineMapping[deviceOrder[2]]
          /\ counter = 0

\* the cost the aligner adds for the block pair of the pending merge
PendingPairCost ==
    MisMatchScore(flavor, metaTemplate[1], NextSegment.blocks[1], NextParamValueMap)

\* C11 as stated: for two one-line ACL segments of the same action whose lines
\* differ in protocol, the line score is INFINITY, no pair is matched, the cost
\* added for the pair is 2 x LINE_PENALTY, and the merge keeps the two lines apart
C11_AsStated ==
    /\ ProtocolMismatchOutcome
    /\ (ProtocolMismatch /\ MergePending) =>
          PendingMatch.score = 2 * ACL_LINE_PENALTY /\ PendingPairCost = 2 * ACL_LINE_PENALTY

\* C11: for two one-line ACL segments of the same action whose lines differ in
\* protocol, the line score is INFINITY, no pair is matched, the cost added for
\* the pair is 1 x LINE_PENALTY (40), and the merge keeps the two lines apart
C11_ProtocolMismatch ==
    /\ ProtocolMismatchOutcome
    /\ (ProtocolMismatch /\ MergePending) =>
          /\ PendingMatch.score = ACL_LINE_PENALTY
          /\ PendingPairCost = ACL_LINE_PENALTY
          /\ ACL_LINE_PENALTY = 40

\* the merge of two such segments has happened
C11_Witness ==
    /\ ProtocolMismatch
    /\ pc = "done"
    /\ result # "Error"
    /\ Len(metaTemplate) = 1
    /\ Len(metaTemplate[1].lines) = 2

\* BipartiteMatching was called and has returned
MatcherReturned == probe.kind = "BipartiteMatching" /\ probe.returned

\* perLineGapPenalty under the function map of the run
PerLineGapPenalty == IF flavor = "ACL" THEN ACL_LINE_PENALTY ELSE LINE_PENALTY

\* the number of lines of LS whose items, LINENUM aside, are those of content
CountOf(LS, content) == Cardinality({i \in DOMAIN LS : Content(LS[i]) = content})

\* the number of pairs of equal lines: per content the smaller of the two counts
EqualLinePairs(LS1, LS2) ==
    LET firsts == SeqOfSet({i \in DOMAIN LS1 :
                              \A k \in 1..(i - 1) : Content(LS1[k]) # Content(LS1[i])})
    IN  SumSeq([n \in 1..Len(firsts) |->
                  Min({CountOf(LS1, Content(LS1[firsts[n]])),
                       CountOf(LS2, Content(LS1[firsts[n]]))})])

\* the cost C12 states for a returned list of matched pairs: the line scores of
\* the pairs of unequal lines, one penalty per assignment pair that is missing
\* from the list, one penalty per line of length difference
StatedCost(LS1, LS2, paramValueMap, matched) ==
    LET kept == SeqOfSet({n \in DOMAIN matched :
                            Content(LS1[matched[n][1]]) # Content(LS2[matched[n][2]])})
        shorter == Min({Len(LS1), Len(LS2)})
        longer == Max({Len(LS1), Len(LS2)})
    IN  SumSeq([n \in 1..Len(kept) |->
                  LineScore(flavor, LS1[matched[kept[n]][1]], LS2[matched[kept[n]][2]],
                            paramValueMap)])
          + PerLineGapPenalty * (shorter - Len(matched))
          + PerLineGapPenalty * (longer - shorter)

\* a returned list of matched pairs pairs no line twice, holds a pair for every
\* pair of equal lines, holds no pair that scores INFINITY, and leaves a pair
\* out only if some pair of unmatched lines scores INFINITY
StatedPairs(LS1, LS2, paramValueMap, matched) ==
    /\ \A n, k \in DOMAIN matched :
          n # k => matched[n][1] # matched[k][1] /\ matched[n][2] # matched[k][2]
    /\ \A n \in DOMAIN matched : matched[n][1] \in DOMAIN LS1 /\ matched[n][2] \in DOMAIN LS2
    /\ Cardinality({n \in DOMAIN matched :
                      Content(LS1[matched[n][1]]) = Content(LS2[matched[n][2]])})
          = EqualLinePairs(LS1, LS2)
    /\ \A n \in DOMAIN matched :
          Content(LS1[matched[n][1]]) # Content(LS2[matched[n][2]])
             => LineScore(flavor, LS1[matched[n][1]], LS2[matched[n][2]], paramValueMap)
                   # INFINITY
    /\ Len(matched) < Min({Len(LS1), Len(LS2)}) =>
          \E i \in DOMAIN LS1, j \in DOMAIN LS2 :
             /\ \A n \in DOMAIN matched : matched[n][1] # i /\ matched[n][2] # j
             /\ LineScore(flavor, LS1[i], LS2[j], paramValueMap) = INFINITY

\* C12: the cost BipartiteMatching returns is the sum of the line scores of the
\* kept assignment pairs, plus one perLineGapPenalty per assignment pair
\* discarded for a score of INFINITY, plus perLineGapPenalty per line of length
\* difference, pairs of equal lines costing nothing; the matched pairs hold every
\* pair of equal lines and every kept pair and no discarded pair
C12_MatcherCost ==
    MatcherReturned =>
       \A matched \in probe.out.matched :
          /\ StatedPairs(probe.args.LS1, probe.args.LS2, probe.args.paramValueMap, matched)
          /\ probe.out.score
                = StatedCost(probe.args.LS1, probe.args.LS2, probe.args.paramValueMap, matched)

\* a call on sequences of different lengths that returned with an assignment
\* pair discarded
C12_Witness ==
    /\ MatcherReturned
    /\ Len(probe.args.LS1) # Len(probe.args.LS2)
    /\ \E matched \in probe.out.matched :
          /\ Len(matched) < Min({Len(probe.args.LS1), Len(probe.args.LS2)})
          /\ probe.out.score = 2 * PerLineGapPenalty

\* LineScore was called and has returned
LineScoreReturned == probe.kind = "LineScore" /\ probe.returned

\* C13: under every function map, LineScore returns INFINITY whenever the
\* identity tags of the two lines differ
C13_TagMismatch ==
    (LineScoreReturned /\ probe.args.templateLine.tag # probe.args.deviceLine.tag)
       => probe.out = INFINITY

\* what C14 states for attribute i: nothing if both lines lack it, 2 if one
\* lacks it, 0 if the values are equal, 1 if they differ and the template value
\* is a known parameter whose values hold the device value, 2 otherwise
StatedAttrCost(templateLine, deviceLine, i, paramValueMap) ==
    LET t == templateLine.attrs[i]
        d == deviceLine.attrs[i]
    IN  IF ~Has(t) /\ ~Has(d) THEN 0
        ELSE IF ~Has(t) \/ ~Has(d) THEN 2
        ELSE IF t = d THEN 0
        ELSE IF t \in DOMAIN paramValueMap /\ d \in DOMAIN paramValueMap[t] THEN 1
        ELSE 2

\* C14: when the identity tags agree, LineScore returns the sum over the
\* attributes of the stated cost, which adds nothing for an attribute both lines
\* lack; so a line scored against itself gives 0
C14_AttributeCost ==
    (LineScoreReturned /\ probe.args.templateLine.tag = probe.args.deviceLine.tag) =>
       /\ probe.out = SumSeq([i \in 1..NumAttrs |->
                                StatedAttrCost(probe.args.templateLine, probe.args.deviceLine,
                                               i, probe.args.paramValueMap)])
       /\ Content(probe.args.templateLine) = Content(probe.args.deviceLine) => probe.out = 0

\* AlignSequences was called and has returned
AlignerReturned == probe.kind = "AlignSequences" /\ probe.returned

\* gapPenalty of a block: perLineGapPenalty per line
StatedGap(block) == PerLineGapPenalty * Len(block.lines)

\* the three costs the recurrence compares in the cell dp[i][j], i, j >= 1:
\* diagonal, bs1's block against an empty slot, bs2's block against an empty slot
StepCosts(dp, bs1, bs2, paramValueMap, i, j) ==
    [diag |-> dp[<<i - 1, j - 1>>].score + MisMatchScore(flavor, bs1[i], bs2[j], paramValueMap),
     up   |-> dp[<<i - 1, j>>].score + StatedGap(bs1[i]),
     left |-> dp[<<i, j - 1>>].score + StatedGap(bs2[j])]

\* the score the recurrence of C15 gives the cell dp[i][j]
StatedScore(dp, bs1, bs2, paramValueMap, i, j) ==
    IF i = 0 /\ j = 0 THEN 0
    ELSE IF j = 0 THEN SumSeq([k \in 1..i |-> StatedGap(bs1[k])])
    ELSE IF i = 0 THEN SumSeq([k \in 1..j |-> StatedGap(bs2[k])])
    ELSE Min({StepCosts(dp, bs1, bs2, paramValueMap, i, j).diag,
              StepCosts(dp, bs1, bs2, paramValueMap, i, j).up,
              StepCosts(dp, bs1, bs2, paramValueMap, i, j).left})

\* C15: dp[0][0].score is 0, the border cells hold the sums of the gap penalties
\* of the blocks before them, and every other cell holds the least of the
\* diagonal cost and the two gap costs
C15_Recurrence ==
    AlignerReturned =>
       \A i \in 0..Len(probe.args.bs1), j \in 0..Len(probe.args.bs2) :
          probe.out.dp[<<i, j>>].score
             = StatedScore(probe.out.dp, probe.args.bs1, probe.args.bs2,
                           probe.args.paramValueMap, i, j)

\* a call on two sequences of two or more blocks, where each of the three steps
\* is the cheapest in some cell
C15_Witness ==
    /\ AlignerReturned
    /\ Len(probe.args.bs1) >= 2
    /\ Len(probe.args.bs2) >= 2
    /\ \A step \in 1..3 :
          \E i \in 1..Len(probe.args.bs1), j \in 1..Len(probe.args.bs2) :
             probe.out.dp[<<i, j>>].pointer = step

\* the step C16 prescribes for the three costs, 0 where it prescribes none
StatedStep(costs) ==
    IF costs.diag <= costs.up /\ costs.diag <= costs.left THEN 1
    ELSE IF costs.up = costs.left THEN 3
    ELSE 0

\* C16: in every cell dp[i][j] with i, j >= 1 the diagonal step is chosen when
\* its cost is at most both gap costs; when it is not and the two gap costs are
\* equal, the step from dp[i-1][j] is chosen, which the traceback emits as
\* bs1's block against an empty slot
C16_TieBreaking ==
    AlignerReturned =>
       /\ \A i \in 1..Len(probe.args.bs1), j \in 1..Len(probe.args.bs2) :
             StatedStep(StepCosts(probe.out.dp, probe.args.bs1, probe.args.bs2,
                                  probe.args.paramValueMap, i, j))
                \in {0, probe.out.dp[<<i, j>>].pointer}
       /\ probe.out.dp[<<Len(probe.args.bs1), Len(probe.args.bs2)>>].pointer = 3 =>
             /\ probe.out.alignment.block1Alignment[Len(probe.out.alignment.block1Alignment)]
                   = Len(probe.args.bs1)
             /\ probe.out.alignment.block2Alignment[Len(probe.out.alignment.block2Alignment)]
                   = 0

\* a call where the last cell has equal gap costs and a worse diagonal
C16_Witness ==
    /\ AlignerReturned
    /\ StatedStep(StepCosts(probe.out.dp, probe.args.bs1, probe.args.bs2,
                            probe.args.paramValueMap, Len(probe.args.bs1),
                            Len(probe.args.bs2))) = 3
    /\ probe.out.dp[<<Len(probe.args.bs1), Len(probe.args.bs2)>>].pointer = 3

\* a call where in some cell the diagonal cost equals a gap cost
C16_DiagonalTie ==
    /\ AlignerReturned
    /\ \E i \in 1..Len(probe.args.bs1), j \in 1..Len(probe.args.bs2) :
          /\ StepCosts(probe.out.dp, probe.args.bs1, probe.args.bs2,
                       probe.args.paramValueMap, i, j).diag
                \in {StepCosts(probe.out.dp, probe.args.bs1, probe.args.bs2,
                               probe.args.paramValueMap, i, j).up,
                     StepCosts(probe.out.dp, probe.args.bs1, probe.args.bs2,
                               probe.args.paramValueMap, i, j).left}
          /\ probe.out.dp[<<i, j>>].pointer = 1

\* no two consecutive blocks have the same action
DistinctNeighbours(blocks) ==
    \A k \in 1..(Len(blocks) - 1) : blocks[k].action # blocks[k + 1].action

\* the action of every line of a block list, in block order then line order
RECURSIVE LineActions(_)
LineActions(blocks) ==
    IF blocks = <<>> THEN <<>>
    ELSE [k \in 1..Len(Head(blocks).lines) |-> Head(blocks).action] \o LineActions(Tail(blocks))

LiteralMismatch(tLine, dLine, a) ==
    /\ Has(tLine.attrs[a])
    /\ Has(dLine.attrs[a])
    /\ tLine.attrs[a] # dLine.attrs[a]
    /\ ~IsParam(tLine.attrs[a])

\* attribute a is present on the device line only
DeviceOnly(tLine, dLine, a) == ~Has(tLine.attrs[a]) /\ Has(dLine.attrs[a])

\* the parameter C18 expects at attribute a: P<counter>, counter having grown by
\* one for every parameter allocated at an attribute before a
ExpectedParam(tLine, dLine, a, cnt) ==
    ParamName(cnt + Cardinality({b \in 1..(a - 1) :
                                    LiteralMismatch(tLine, dLine, b) \/ DeviceOnly(tLine, dLine, b)}))

\* what C18 states of the outcome st of merging the matched pair tLine, dLine of
\* device into the parameters params with counter cnt
StatedAllocation(tLine, dLine, device, params, cnt, st) ==
    /\ \A a \in 1..NumAttrs :
          /\ LiteralMismatch(tLine, dLine, a) =>
                /\ st.line.attrs[a] = ExpectedParam(tLine, dLine, a, cnt)
                /\ \A d \in DOMAIN params : ExpectedParam(tLine, dLine, a, cnt) \notin DOMAIN params[d]
                /\ st.parameters[device][ExpectedParam(tLine, dLine, a, cnt)] = dLine.attrs[a]
                /\ \A d \in (DOMAIN params) \ {device} :
                      st.parameters[d][ExpectedParam(tLine, dLine, a, cnt)] = tLine.attrs[a]
          /\ tLine.attrs[a] = dLine.attrs[a] => st.line.attrs[a] = tLine.attrs[a]
    /\ st.counter = cnt + Cardinality({a \in 1..NumAttrs :
                                         \/ LiteralMismatch(tLine, dLine, a)
                                         \/ DeviceOnly(tLine, dLine, a)})
    /\ \A d \in DOMAIN params :
          (DOMAIN st.parameters[d]) \ (DOMAIN params[d])
             \subseteq {ExpectedParam(tLine, dLine, a, cnt) :
                          a \in {b \in 1..NumAttrs : \/ LiteralMismatch(tLine, dLine, b)
                                                     \/ DeviceOnly(tLine, dLine, b)}}
                       \cup (IF d = device THEN LineParams(tLine) ELSE {})

\* the attribute loop of MergeLines on the lines tLine and dLine, in the state of
\* the pending merge
PendingPairMerge(tLine, dLine, params) ==
    StatedAllocation(tLine, dLine, NextSegment.deviceName, params, counter,
                     MergeAttributes(tLine, dLine, 1, parameterDistribution(params),
                                     NextSegment.deviceName,
                                     [line |-> tLine, counter |-> counter,
                                      parameters |-> params]))

\* two devices were found, with one line each, of the same action and tag, and
\* the two lines differ at exactly one attribute, present on both
OneAttributeApart ==
    /\ Cardinality(foundDevices) = 2
    /\ Len(segments) = 2
    /\ \A k \in 1..2 : Len(segments[k].blocks) = 1 /\ Len(segments[k].blocks[1].lines) = 1
    /\ segments[1].blocks[1].action = segments[2].blocks[1].action
    /\ segments[1].blocks[1].lines[1].tag = segments[2].blocks[1].lines[1].tag
    /\ \A a \in 1..NumAttrs : /\ Has(segments[1].blocks[1].lines[1].attrs[a])
                              /\ Has(segments[2].blocks[1].lines[1].attrs[a])
    /\ Cardinality({a \in 1..NumAttrs : segments[1].blocks[1].lines[1].attrs[a]
                                           # segments[2].blocks[1].lines[1].attrs[a]}) = 1

\* the attribute at which the two lines of OneAttributeApart differ
ApartAt ==
    CHOOSE a \in 1..NumAttrs :
       segments[1].blocks[1].lines[1].attrs[a] # segments[2].blocks[1].lines[1].attrs[a]

\* C18: merging a matched pair allocates one fresh parameter P<counter> per
\* attribute present on both lines with unequal values and a literal on the
\* template, counter growing by one each time; the new device holds the device
\* value and every other device the old literal, the merged line holds the
\* parameter, and equal attributes get none. Two one-line segments one attribute
\* apart end with the single parameter P0 holding the two literals, one group
\* and the classification "Consistent"
C18_ParameterAllocation ==
    /\ MergePending =>
          \A i \in DOMAIN TemplateLines, j \in DOMAIN AllLines(NextSegment.blocks) :
             PendingPairMerge(TemplateLines[i], AllLines(NextSegment.blocks)[j],
                              Put(parameters, NextSegment.deviceName, EmptyMap))
    /\ (OneAttributeApart /\ pc = "done") =>
          /\ result = "Consistent"
          /\ counter = 1
          /\ Len(groupsList) = 1
          /\ groupsList[1].devices = foundDevices
          /\ TemplateLines[1].attrs[ApartAt] = ParamName(0)
          /\ \A k \in 1..2 :
                parameters[segments[k].deviceName]
                   = Put(EmptyMap, ParamName(0), segments[k].blocks[1].lines[1].attrs[ApartAt])

\* the run on two one-line segments one attribute apart has ended
C18_Witness ==
    /\ OneAttributeApart
    /\ pc = "done"
    /\ counter = 1
    /\ result = "Consistent"

-----------------------------------------------------------------------------
(* Claims on the two reports                                               *)

\* PrintTemplate has run
Reported == pc = "done" /\ result \notin {"Error", "NotFound"}

\* the devices that define both Pi and Pj
DefineBoth(i, j) ==
    {d \in DOMAIN parameters : {ParamName(i), ParamName(j)} \subseteq DOMAIN parameters[d]}

\* those of them on which the two values are unequal
Unequal(i, j) ==
    {d \in DefineBoth(i, j) : parameters[d][ParamName(i)] # parameters[d][ParamName(j)]}

\* the reports of spuriousParamQuestions on the pair Pi, Pj
SpuriousReports(i, j) ==
    {r \in spuriousQ : r.first = ParamName(i) /\ r.second = ParamName(j)}

\* C19: for each pair Pi, Pj with i < j one report naming the devices with
\* unequal values is emitted if and only if |unequal| > 0 and
\* 100 x |unequal| < 5 x (|equal| + |unequal|), over the devices defining both;
\* so 39 equal and 1 unequal give a report, 19 equal and 1 unequal give none,
\* and 0 unequal give none
C19_SpuriousThreshold ==
    Reported =>
       /\ \A r \in spuriousQ :
             \E i, j \in 0..(counter - 1) : i < j /\ r \in SpuriousReports(i, j)
       /\ \A i, j \in 0..(counter - 1) :
             i < j =>
                /\ SpuriousReports(i, j) # {}
                      <=> /\ Cardinality(Unequal(i, j)) > 0
                          /\ 100 * Cardinality(Unequal(i, j)) < 5 * Cardinality(DefineBoth(i, j))
                /\ \A r \in SpuriousReports(i, j) :
                      /\ r.different = Unequal(i, j)
                      /\ r.same = Cardinality(DefineBoth(i, j)) - Cardinality(Unequal(i, j))
                /\ Cardinality(SpuriousReports(i, j)) <= 1
                /\ (Cardinality(DefineBoth(i, j)) = 40 /\ Cardinality(Unequal(i, j)) = 1)
                      => SpuriousReports(i, j) # {}
                /\ (Cardinality(DefineBoth(i, j)) = 20 /\ Cardinality(Unequal(i, j)) = 1)
                      => SpuriousReports(i, j) = {}
                /\ Cardinality(Unequal(i, j)) = 0 => SpuriousReports(i, j) = {}

\* a run over 40 devices, 39 with equal values of P0 and P1 and 1 with unequal
\* values, has ended with the report
C19_Witness ==
    /\ Reported
    /\ counter = 2
    /\ Cardinality(DefineBoth(0, 1)) = 40
    /\ Cardinality(Unequal(0, 1)) = 1
    /\ \E r \in spuriousQ : r.different = Unequal(0, 1) /\ r.same = 39

\* a run over 20 devices, 19 with equal values and 1 with unequal values, has
\* ended without a report on the pair
C19_WitnessBelow ==
    /\ Reported
    /\ counter = 2
    /\ Cardinality(DefineBoth(0, 1)) = 20
    /\ Cardinality(Unequal(0, 1)) = 1
    /\ spuriousQ = {}

\* the parameter names some device defines
DefinedParams == UNION {DOMAIN parameters[d] : d \in DOMAIN parameters}

\* the devices that define parameter p
DevicesDefining(p) == {d \in DOMAIN parameters : p \in DOMAIN parameters[d]}

\* the devices on which parameter p has value v
Holding(p, v) == {d \in DevicesDefining(p) : parameters[d][p] = v}

\* the histogram of p: its distinct values
Histogram(p) == {parameters[d][p] : d \in DevicesDefining(p)}

\* the reports of singleParamQuestions on the value v of p
SingleReports(p, v) == {r \in singleParamQ : r.param = p /\ r.value = v}

\* C20: a value v of a parameter P is reported, with exactly the devices holding
\* v, if and only if 100 x count(v) x |H| < 9 x totalOccurrences, H being the
\* histogram of P over the devices that define it; so with one value on 50
\* devices and another on 1 the one device is reported, and a parameter with a
\* single distinct value is never reported
C20_SingleThreshold ==
    Reported =>
       /\ \A r \in singleParamQ : r.param \in DefinedParams /\ r.value \in Histogram(r.param)
       /\ \A p \in DefinedParams :
             /\ \A v \in Histogram(p) :
                   /\ SingleReports(p, v) # {}
                         <=> 100 * Cardinality(Holding(p, v)) * Cardinality(Histogram(p))
                                < 9 * Cardinality(DevicesDefining(p))
                   /\ \A r \in SingleReports(p, v) :
                         r.routers = Holding(p, v) /\ r.total = Cardinality(DevicesDefining(p))
                   /\ Cardinality(SingleReports(p, v)) <= 1
                   /\ (/\ Cardinality(Histogram(p)) = 2
                       /\ Cardinality(DevicesDefining(p)) = 51
                       /\ Cardinality(Holding(p, v)) = 1) => SingleReports(p, v) # {}
                   /\ (/\ Cardinality(Histogram(p)) = 2
                       /\ Cardinality(DevicesDefining(p)) = 51
                       /\ Cardinality(Holding(p, v)) = 50) => SingleReports(p, v) = {}
             /\ Cardinality(Histogram(p)) = 1 => \A r \in singleParamQ : r.param # p

\* a run over 51 devices, 50 with one value of P0 and 1 with another, has ended
\* with the one device reported and nothing else
C20_Witness ==
    /\ Reported
    /\ counter = 1
    /\ Cardinality(DevicesDefining(ParamName(0))) = 51
    /\ Cardinality(Histogram(ParamName(0))) = 2
    /\ \E r \in singleParamQ :
          /\ Cardinality(r.routers) = 1
          /\ r.routers = Holding(ParamName(0), r.value)
          /\ singleParamQ = {r}

-----------------------------------------------------------------------------
(* Claims on the run as a whole and on the merges                          *)

\* C21: the run is a function of its input: the alignment, the merges and the
\* minimizer are functions of the state and of the assignments the solver
\* returns, which are reproducible, and the reports PrintTemplate returned, the
\* printed sets of device names included, are the only ones it can return
C21_Determinism ==
    Reported =>
       /\ SingleTexts(singleParamQuestions(parameters)) = {singleParamQ}
       /\ SpuriousTexts(spuriousParamQuestions(parameters, counter)) = {spuriousQ}

\* the entries of an alignment that are blocks, in order
BlocksOf(alignment) ==
    LET IsBlock(x) == x # 0
    IN  SelectSeq(alignment, IsBlock)

\* the positions of two alignments of equal length where both sides are blocks
BothPresent(a1, a2) ==
    LET Both(pair) == pair[1] # 0 /\ pair[2] # 0
    IN  SelectSeq([k \in 1..Min({Len(a1), Len(a2)}) |-> <<a1[k], a2[k]>>], Both)

\* C22: AlignSequences returns two alignments of equal length, the blocks of
\* block1Alignment are bs1's blocks, each once and in order, likewise
\* block2Alignment for bs2; both sides are present only where the traceback took
\* a diagonal step, lineMatchings has one entry per such position in the same
\* order, and neither "Undefined pointer type" nor "Something is wrong in
\* alignment!!!" is raised
C22_AlignmentPreservesBlocks ==
    /\ result # "Error"
    /\ AlignerReturned =>
          LET bs1 == probe.args.bs1
              bs2 == probe.args.bs2
              al  == probe.out.alignment
              Preserved(both) ==
                  /\ al.error = None
                  /\ Len(al.block1Alignment) = Len(al.block2Alignment)
                  /\ BlocksOf(al.block1Alignment) = AllIdx(bs1)
                  /\ BlocksOf(al.block2Alignment) = AllIdx(bs2)
                  /\ both = al.diag
                  /\ \A k \in 1..Len(both) : probe.out.dp[both[k]].pointer = 1
                  /\ \A lineMatchings \in MatchingChoices(flavor, bs1, bs2, al.diag,
                                                          probe.args.paramValueMap) :
                        Len(lineMatchings) = Len(both)
          IN  Preserved(BothPresent(al.block1Alignment, al.block2Alignment))

\* a call on two sequences of two blocks or more has returned an alignment with a
\* diagonal step, a block of bs1 against [] and a block of bs2 against []
C22_Witness ==
    /\ AlignerReturned
    /\ Len(probe.args.bs1) >= 2
    /\ Len(probe.args.bs2) >= 2
    /\ probe.out.alignment.diag # <<>>
    /\ \E k \in 1..Len(probe.out.alignment.block1Alignment) :
          probe.out.alignment.block1Alignment[k] # 0 /\ probe.out.alignment.block2Alignment[k] = 0
    /\ \E k \in 1..Len(probe.out.alignment.block1Alignment) :
          probe.out.alignment.block1Alignment[k] = 0 /\ probe.out.alignment.block2Alignment[k] # 0

\* the positions of lines without a pair in the matching, ascending; side 1 is the
\* template, side 2 the device
Unmatched(lines, matching, side) ==
    SeqOfSet({i \in DOMAIN lines : \A n \in 1..Len(matching) : matching[n][side] # i})

\* the state MergeLines is entered with when lineNum identities were given
\* before, to lines of which the new device holds devLines
MergerState(lineNum, devLines) ==
    [mergedBlocks |-> <<>>, lines |-> <<>>, lineNum |-> lineNum, j |-> 0,
     o2n |-> EmptyMap, newDeviceLines |-> devLines, counter |-> counter,
     parameters |-> Put(parameters, NextSegment.deviceName, EmptyMap)]

\* what the claim states of MergeLines' result out on the block pair and matching
StatedMerge(templateLines, deviceLines, matching, st, out) ==
    LET tOnly == Unmatched(templateLines, matching, 1)
        dOnly == Unmatched(deviceLines, matching, 2)
        total == Len(tOnly) + Len(dOnly) + Len(matching)
        \* the template line the k-th merged line comes from, 0 for a device line
        From(k) == IF k <= Len(tOnly) THEN tOnly[k]
                   ELSE IF k <= Len(tOnly) + Len(dOnly) THEN 0
                   ELSE matching[k - Len(tOnly) - Len(dOnly)][1]
    IN  /\ Len(out.lines) = total
        /\ out.lineNum = st.lineNum + total
        /\ \A k \in 1..total : out.lines[k].num = st.lineNum + k - 1
        /\ \A k \in 1..Len(tOnly) : Content(out.lines[k]) = Content(templateLines[tOnly[k]])
        /\ \A k \in 1..Len(dOnly) :
              Content(out.lines[Len(tOnly) + k]) = Content(deviceLines[dOnly[k]])
        /\ \A k \in 1..Len(matching) :
              out.lines[Len(tOnly) + Len(dOnly) + k].tag = templateLines[matching[k][1]].tag
        /\ \A k \in 1..total :
              From(k) # 0 => /\ templateLines[From(k)].num \in DOMAIN out.o2n
                             /\ out.o2n[templateLines[From(k)].num] = out.lines[k].num
        /\ out.newDeviceLines
              = st.newDeviceLines
                   \o [k \in 1..(Len(dOnly) + Len(matching)) |-> st.lineNum + Len(tOnly) + k - 1]
        /\ \A k \in 1..Len(tOnly) :
              \A n \in 1..Len(out.newDeviceLines) :
                 n > Len(st.newDeviceLines) => out.newDeviceLines[n] # out.lines[k].num

\* the matchings BipartiteMatching can return for block i of the meta-template
\* and block j of the segment of the pending merge
PendingMatchings(i, j) ==
    MisMatchMatched(flavor, metaTemplate[i], NextSegment.blocks[j], NextParamValueMap)

\* C23: MergeLines on a block pair puts the template lines outside the matching
\* first, in template order, then the device lines outside the matching, in
\* device order, then one line per matched pair, in matching order, with the
\* identities lineNum, lineNum+1, ... in that order; the new device's lineMapping
\* receives the identities of the device-only and matched lines and of no
\* template-only line
C23_MergeLinesOrder ==
    MergePending =>
       \A i \in DOMAIN metaTemplate, j \in DOMAIN NextSegment.blocks :
          \A matching \in PendingMatchings(i, j), lineNum \in {0, 2} :
             StatedMerge(metaTemplate[i].lines, NextSegment.blocks[j].lines, matching,
                            MergerState(lineNum, AllIdx([k \in 1..lineNum |-> k])),
                            MergeLines(metaTemplate[i].lines, NextSegment.blocks[j].lines,
                                       matching, NextSegment.deviceName,
                                       MergerState(lineNum, AllIdx([k \in 1..lineNum |-> k]))))

\* a merge is pending on a block pair whose matching leaves out a template line
\* and a device line and pairs two others
C23_Witness ==
    /\ MergePending
    /\ \E i \in DOMAIN metaTemplate, j \in DOMAIN NextSegment.blocks :
          /\ metaTemplate[i].action = NextSegment.blocks[j].action
          /\ \E matching \in PendingMatchings(i, j) :
                /\ matching # <<>>
                /\ Unmatched(metaTemplate[i].lines, matching, 1) # <<>>
                /\ Unmatched(NextSegment.blocks[j].lines, matching, 2) # <<>>

\* the lines of the blocks, read in block order then line order, carry the
\* identities 0, 1, ..., L-1
Contiguous(blocks) ==
    /\ \A k \in DOMAIN AllLines(blocks) : AllLines(blocks)[k].num = k - 1
    /\ AllLines(blocks) # <<>> => LastLineNum(blocks) = Len(AllLines(blocks)) - 1

\* C24: every parsed segment, the meta-template after every merge and the
\* meta-template after MinimizeParameters carry the identities 0, 1, ..., L-1 in
\* block order then line order, L the number of lines, so that the last line of
\* the last block has identity L-1
C24_ContiguousIdentities ==
    /\ \A k \in DOMAIN segments : Contiguous(segments[k].blocks)
    /\ result # "Error" => Contiguous(metaTemplate)

\* MinimizeParameters has run on a merged meta-template of three lines or more,
\* and its sort moved a line
C24_Witness ==
    /\ AfterMinimize
    /\ templatingCount >= 1
    /\ Len(TemplateLines) >= 3
    /\ \E n \in DOMAIN oldtoNewMap : oldtoNewMap[n] # n

\* the step is a merge: the templating loop has gone from one segment to the next
MergeStep == pc = "template" /\ templateIdx >= 1 /\ templateIdx' = templateIdx + 1

\* C25: a merge before MinimizeParameters does not lower counter, does not lower
\* the number of meta-template lines, and for every device merged before it
\* leaves every key of parameters[d] in place with its value
C25_MonotonicGrowth ==
    [][MergeStep =>
          /\ counter' >= counter
          /\ Len(AllLines(metaTemplate')) >= Len(AllLines(metaTemplate))
          /\ \A d \in Range(deviceOrder) :
                /\ d \in DOMAIN parameters'
                /\ \A p \in DOMAIN parameters[d] :
                      /\ p \in DOMAIN parameters'[d]
                      /\ parameters'[d][p] = parameters[d][p]]_vars

\* two merges were done, each allocated a parameter, and the first device holds
\* both while the meta-template has grown beyond the first segment
C25_Witness ==
    /\ pc = "template"
    /\ templatingCount = 2
    /\ counter >= 2
    /\ Cardinality(DOMAIN parameters[deviceOrder[1]]) >= 2
    /\ Len(TemplateLines) > Len(AllLines(segments[TemplatingOrder[1]].blocks))

-----------------------------------------------------------------------------
(* Claims on MinimizeParameters                                            *)

\* the templating loop has ended with a meta-template: MinimizeParameters is next
MinimizePending == pc = "template" /\ templateIdx = Len(segments) /\ metaTemplate # NoTemplate

\* the parameter names on the lines of the blocks
NamesIn(blocks) == UNION {LineParams(AllLines(blocks)[k]) : k \in DOMAIN AllLines(blocks)}

\* what the claim states of the groups common formed over the parameters pruned,
\* and of the meta-template and parameters after ModifyErase ran on each group
StatedCoalescing(blocks, pruned, common, after) ==
    LET Members(g) == Range(common[g])
        Erased == UNION {Range(Tail(common[g])) : g \in DOMAIN common}
        Grouped == UNION {Members(g) : g \in DOMAIN common}
    IN  /\ \A g \in DOMAIN common :
              /\ Len(common[g]) > 1
              /\ Cardinality(Members(g)) = Len(common[g])
              /\ \A p \in Members(g), q \in Members(g), d \in DOMAIN pruned :
                    (p \in DOMAIN pruned[d] /\ q \in DOMAIN pruned[d])
                       => pruned[d][p] = pruned[d][q]
              /\ \A k \in 2..Len(common[g]) :
                    \E d \in DOMAIN pruned :
                       /\ common[g][1] \in DOMAIN pruned[d]
                       /\ common[g][k] \in DOMAIN pruned[d]
                       /\ pruned[d][common[g][1]] = pruned[d][common[g][k]]
        /\ \A g \in DOMAIN common, h \in DOMAIN common :
              g # h => Members(g) \cap Members(h) = {}
        /\ NamesIn(after.blocks) \cap Erased = {}
        /\ NamesIn(after.blocks) = NamesIn(blocks) \ Erased
        /\ \A d \in DOMAIN pruned :
              /\ DOMAIN after.parameters[d] \cap Erased = {}
              /\ \A g \in DOMAIN common : \A p \in Members(g) :
                    p \in DOMAIN pruned[d] =>
                       /\ common[g][1] \in DOMAIN after.parameters[d]
                       /\ after.parameters[d][common[g][1]] = pruned[d][p]
              /\ \A p \in DOMAIN pruned[d] \ Grouped :
                    /\ p \in DOMAIN after.parameters[d]
                    /\ after.parameters[d][p] = pruned[d][p]
              /\ DOMAIN after.parameters[d] \subseteq
                    (DOMAIN pruned[d] \ Erased) \cup {common[g][1] : g \in DOMAIN common}

\* the coalescing of MinimizeParameters on the pruned parameters
CoalescingOf(pruned, common) ==
    StatedCoalescing(metaTemplate, pruned, common,
                     ModifyEraseAll(common, 1, [blocks |-> metaTemplate,
                                                parameters |-> pruned]))

\* C26: MinimizeParameters coalesces parameters only inside groups in which no
\* device defines two members with different values and every member but the
\* first equals the first on some device; the groups are pairwise disjoint; after
\* the coalescing only the first member of a group occurs in the meta-template
\* and in the devices' parameters, and a device's value for it is the value it
\* had for the group member it defined
C26_CoalescingSound ==
    MinimizePending =>
       CoalescingOf(PruneParameters(metaTemplate, parameters, lineMapping),
                    commonValueParams(PruneParameters(metaTemplate, parameters, lineMapping),
                                      counter))

\* some device holds two parameters with different values
Conflicting(pruned) ==
    \E d \in DOMAIN pruned :
       \E p \in DOMAIN pruned[d], q \in DOMAIN pruned[d] : pruned[d][p] # pruned[d][q]

\* MinimizeParameters is about to coalesce a group while two parameters hold
\* different values on some device
C26_Witness ==
    /\ MinimizePending
    /\ commonValueParams(PruneParameters(metaTemplate, parameters, lineMapping), counter) # <<>>
    /\ Conflicting(PruneParameters(metaTemplate, parameters, lineMapping))

\* a list of identities rewritten by the map
Rewritten(lines, o2n) == [k \in 1..Len(lines) |-> o2n[lines[k]]]

\* what the claim states of groupAndSortPredicates: blocks, pg are the
\* meta-template and the result of predicateGenerator it is called with, gs its
\* result
StatedSort(blocks, pg, gs) ==
    LET o2n == gs.oldtoNewMap
        ids == {AllLines(blocks)[k].num : k \in DOMAIN AllLines(blocks)}
        PredOf(n) == CHOOSE p \in DOMAIN pg.predicates : n \in Range(pg.predicates[p])
        \* the position in the block b the line at position k came from
        Old(b, k) == CHOOSE i \in DOMAIN blocks[b].lines :
                        o2n[blocks[b].lines[i].num] = gs.blocks[b].lines[k].num
    IN  /\ DOMAIN o2n = ids
        /\ {o2n[n] : n \in ids} = ids
        /\ \A n \in ids, m \in ids : n # m => o2n[n] # o2n[m]
        /\ Len(gs.blocks) = Len(blocks)
        /\ \A b \in DOMAIN blocks :
              /\ gs.blocks[b].action = blocks[b].action
              /\ Len(gs.blocks[b].lines) = Len(blocks[b].lines)
              /\ \A k \in DOMAIN gs.blocks[b].lines :
                    /\ \E i \in DOMAIN blocks[b].lines :
                          o2n[blocks[b].lines[i].num] = gs.blocks[b].lines[k].num
                    /\ Content(gs.blocks[b].lines[k]) = Content(blocks[b].lines[Old(b, k)])
              /\ \A k \in DOMAIN gs.blocks[b].lines, j \in DOMAIN gs.blocks[b].lines :
                    k < j =>
                       /\ PredOf(blocks[b].lines[Old(b, j)].num) = "A"
                             => PredOf(blocks[b].lines[Old(b, k)].num) = "A"
                       /\ PredRank(PredOf(blocks[b].lines[Old(b, k)].num))
                             <= PredRank(PredOf(blocks[b].lines[Old(b, j)].num))
                       /\ PredOf(blocks[b].lines[Old(b, k)].num)
                             = PredOf(blocks[b].lines[Old(b, j)].num) => Old(b, k) < Old(b, j)
        /\ DOMAIN gs.predicates = DOMAIN pg.predicates
        /\ \A p \in DOMAIN pg.predicates :
              gs.predicates[p] = Rewritten(pg.predicates[p], o2n)
        /\ DOMAIN gs.lineMapping = DOMAIN pg.lineMapping
        /\ \A d \in DOMAIN pg.lineMapping :
              gs.lineMapping[d] = Rewritten(pg.lineMapping[d], o2n)
        /\ Len(gs.groupsList) = Len(pg.groupsList)
        /\ \A g \in DOMAIN pg.groupsList :
              /\ gs.groupsList[g].devices = pg.groupsList[g].devices
              /\ gs.groupsList[g].lines = Rewritten(pg.groupsList[g].lines, o2n)

\* the meta-template after the coalescing of the pending MinimizeParameters
CoalescedBlocks ==
    ModifyEraseAll(commonValueParams(PruneParameters(metaTemplate, parameters, lineMapping),
                                     counter),
                   1, [blocks |-> metaTemplate,
                       parameters |-> PruneParameters(metaTemplate, parameters,
                                                      lineMapping)]).blocks

\* groupAndSortPredicates on the blocks and the result of predicateGenerator
SortOf(blocks, pg) ==
    StatedSort(blocks, pg,
               groupAndSortPredicates(blocks, pg.lineMapping, pg.predicates, pg.groupsList))

\* the sort of the pending MinimizeParameters moves a line of the blocks
SortMoves(blocks, pg) ==
    \E n \in DOMAIN groupAndSortPredicates(blocks, pg.lineMapping, pg.predicates,
                                           pg.groupsList).oldtoNewMap :
       groupAndSortPredicates(blocks, pg.lineMapping, pg.predicates,
                              pg.groupsList).oldtoNewMap[n] # n

\* C27: groupAndSortPredicates puts, inside every block, the lines of predicate A
\* before the lines of the R-predicates, the lines in the order of their
\* predicates' names and the lines of one predicate in the order they had; the
\* predicates, every lineMapping[d] and every group's lines are rewritten with
\* the one bijection from old to new identities
C27_RenumberingOrder ==
    MinimizePending =>
       SortOf(CoalescedBlocks,
              predicateGenerator(lineMapping, deviceOrder, LastLineNum(CoalescedBlocks)))

\* MinimizeParameters is pending on a meta-template in which a block holds a line
\* behind a line of a later predicate: the sort moves it
C27_Witness ==
    /\ MinimizePending
    /\ SortMoves(CoalescedBlocks,
                 predicateGenerator(lineMapping, deviceOrder, LastLineNum(CoalescedBlocks)))

\* the attribute values of the blocks in block, line, attribute order
TokensOf(blocks) == Flatten([k \in 1..Len(AllLines(blocks)) |-> AllLines(blocks)[k].attrs])

\* what the claim states of RemapParameters: old and new are the attribute values
\* of the meta-template before and after it, params the parameters it is called
\* with and rp its result
StatedRemap(old, new, params, rp) ==
    LET before == {old[n] : n \in {k \in DOMAIN old : IsParam(old[k])}}
        after  == {new[n] : n \in {k \in DOMAIN new : IsParam(new[k])}}
        First(p) == CHOOSE n \in DOMAIN new : new[n] = p /\ \A k \in 1..(n - 1) : new[k] # p
        \* the renaming: the new name at the place of an old name
        Renaming(p) == new[CHOOSE n \in DOMAIN old : old[n] = p]
    IN  /\ Len(new) = Len(old)
        /\ after = {ParamName(i) : i \in 0..(rp.counter - 1)}
        /\ rp.counter = Cardinality(after)
        /\ rp.counter = Cardinality(before)
        /\ \A i \in 0..(rp.counter - 1), j \in 0..(rp.counter - 1) :
              i < j => First(ParamName(i)) < First(ParamName(j))
        /\ \A n \in DOMAIN old : new[n] = IF IsParam(old[n]) THEN Renaming(old[n]) ELSE old[n]
        /\ \A p \in before, q \in before : p # q => Renaming(p) # Renaming(q)
        /\ DOMAIN rp.parameters = DOMAIN params
        /\ \A d \in DOMAIN params :
              /\ DOMAIN params[d] \subseteq before
              /\ DOMAIN rp.parameters[d] = {Renaming(p) : p \in DOMAIN params[d]}
              /\ \A p \in DOMAIN params[d] : rp.parameters[d][Renaming(p)] = params[d][p]

\* the parameters after the coalescing of the pending MinimizeParameters
CoalescedParameters ==
    ModifyEraseAll(commonValueParams(PruneParameters(metaTemplate, parameters, lineMapping),
                                     counter),
                   1, [blocks |-> metaTemplate,
                       parameters |-> PruneParameters(metaTemplate, parameters,
                                                      lineMapping)]).parameters

\* RemapParameters on the result gs of groupAndSortPredicates
RemapOf(gs, params) ==
    StatedRemap(TokensOf(gs.blocks),
                TokensOf(RemapParameters(gs.blocks, params, gs.lineMapping).blocks),
                params, RemapParameters(gs.blocks, params, gs.lineMapping))

\* the blocks and lineMapping RemapParameters is called with in the pending
\* MinimizeParameters
SortedOf(blocks, pg) ==
    groupAndSortPredicates(blocks, pg.lineMapping, pg.predicates, pg.groupsList)

\* C28: after MinimizeParameters the parameter names in the meta-template are
\* P0 .. P(counter-1), counter being the number of distinct parameters in it, and
\* their first occurrences in block, line, attribute order come in increasing
\* index; every parameters[d] is renamed with the same injective renaming and
\* keeps its values
C28_ParameterRenumbering ==
    /\ MinimizePending =>
          RemapOf(SortedOf(CoalescedBlocks,
                           predicateGenerator(lineMapping, deviceOrder,
                                              LastLineNum(CoalescedBlocks))),
                  CoalescedParameters)
    /\ AfterMinimize =>
          /\ NamesIn(metaTemplate) = {ParamName(i) : i \in 0..(counter - 1)}
          /\ \A d \in DOMAIN parameters : DOMAIN parameters[d] \subseteq NamesIn(metaTemplate)

\* MinimizeParameters is pending on a meta-template with two parameters or more
\* after the coalescing, one of which gets another name
C28_Witness ==
    /\ MinimizePending
    /\ Cardinality(NamesIn(CoalescedBlocks)) >= 2
    /\ NamesIn(CoalescedBlocks) # {ParamName(i) : i \in 0..(Cardinality(NamesIn(CoalescedBlocks)) - 1)}

-----------------------------------------------------------------------------
(* Claims on block actions and on lineMapping                              *)

\* C29: AlignSequences emits no diagonal step for two blocks whose actions
\* differ, whatever the sizes of the blocks, also when the two gap penalties
\* together reach INFINITY: no merged block holds lines of the two actions
C29_NoCrossActionMerge ==
    AlignerReturned =>
       \A k \in DOMAIN probe.out.alignment.diag :
          probe.args.bs1[probe.out.alignment.diag[k][1]].action
             = probe.args.bs2[probe.out.alignment.diag[k][2]].action

\* the call on two large blocks of different actions has returned one diagonal
\* step: the gap penalties of the two blocks together are INFINITY or more
C29_LargeBlocksPaired ==
    /\ AlignerReturned
    /\ Len(probe.args.bs1) = 1
    /\ Len(probe.args.bs2) = 1
    /\ probe.args.bs1[1].action # probe.args.bs2[1].action
    /\ GapPenalty(flavor, probe.args.bs1[1]) + GapPenalty(flavor, probe.args.bs2[1]) >= INFINITY
    /\ probe.out.alignment.diag = <<(<<1, 1>>)>>
    /\ probe.out.dp[<<1, 1>>].score = INFINITY

\* the segment of the k-th device the templating loop visited
SegmentOf(k) == segments[TemplatingOrder[k]]

\* C30: after every merge, lineMapping[d] of every device d merged so far has no
\* duplicate identity, holds identities of lines of the current meta-template
\* only and has as many entries as d's segment has lines; every identity of the
\* meta-template is in lineMapping[d] of some device d
C30_LineMappingConsistency ==
    (pc = "template" /\ templateIdx >= 1) =>
       /\ DOMAIN lineMapping = Range(deviceOrder)
       /\ Len(deviceOrder) = templateIdx
       /\ \A k \in DOMAIN deviceOrder :
             /\ SegmentOf(k).deviceName = deviceOrder[k]
             /\ \A i \in DOMAIN lineMapping[deviceOrder[k]], j \in DOMAIN lineMapping[deviceOrder[k]] :
                   i # j => lineMapping[deviceOrder[k]][i] # lineMapping[deviceOrder[k]][j]
             /\ Range(lineMapping[deviceOrder[k]]) \subseteq TemplateIds
             /\ Len(lineMapping[deviceOrder[k]]) = Len(AllLines(SegmentOf(k).blocks))
       /\ TemplateIds \subseteq UNION {Range(lineMapping[d]) : d \in DOMAIN lineMapping}

\* two merges were done, the meta-template has more lines than any segment, and
\* the first device's lines have other identities than they had in its segment
C30_Witness ==
    /\ pc = "template"
    /\ templatingCount = 2
    /\ \A k \in DOMAIN deviceOrder : Len(TemplateLines) > Len(AllLines(SegmentOf(k).blocks))
    /\ \E i \in DOMAIN lineMapping[deviceOrder[1]] : lineMapping[deviceOrder[1]][i] # i - 1

====
